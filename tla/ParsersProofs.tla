----------------------------- MODULE ParsersProofs -----------------------------
(***************************************************************************)
(* What the two parsers of the client make of a text is what it means, for *)
(* files and answers of any length and for any number of tokens: every     *)
(* invariant of Parsers as a theorem of its specification.                 *)
(***************************************************************************)
EXTENDS Parsers, FiniteSetTheorems, SequenceTheorems, TLAPS

-----------------------------------------------------------------------------
\* The configuration file: what the parser has kept of the lines is what the next
\* line's meaning depends on.
SectionIsTheLast ==
  \A n \in Sections : section = n <=> InSection(Len(lines), n)
NameIsTheLast ==
  prev_name # NoText => \A n \in Names : prev_name = n <=> NameOf(Len(lines), n)
NameIsKept == prev_name # NoText <=> HasName(Len(lines) + 1)

IniInv == IniTypeOK /\ SectionIsTheLast /\ NameIsTheLast /\ NameIsKept /\ ConfigAsWritten

\* The fields of a line.
LEMMA LineFields ==
  ASSUME NEW line \in Lines
  PROVE  /\ line.kind \in {"skipped", "badSection", "section", "pair", "bad"}
         /\ line.indent \in BOOLEAN
         /\ line.kind = "section" => line.name \in Sections \cup {NoText}
         /\ line.kind = "pair" => line.name \in Names \cup {NoText} /\ line.value \in Texts
         /\ line.kind # "skipped" => line.text \in Texts
BY DEF Lines, Line, Names, Texts

\* A step appends a line.
LEMMA OneMoreLine ==
  ASSUME IniTypeOK, NEW line \in Lines, ReadLine(line)
  PROVE  /\ Len(lines) \in Nat /\ Len(lines) < MaxLines
         /\ lines' \in Seq(Lines) /\ Len(lines') = Len(lines) + 1
         /\ lines'[Len(lines) + 1] = line
         /\ \A i \in 1..Len(lines) : lines[i] \in Lines /\ lines'[i] = lines[i]
BY DEF IniTypeOK, ReadLine

\* What a line before it means does not change.
LEMMA EarlierLines ==
  ASSUME IniTypeOK, NEW line \in Lines, ReadLine(line)
  PROVE  /\ \A i \in 1..(Len(lines) + 1) : HasName(i)' <=> HasName(i)
         /\ \A i \in 1..Len(lines) :
              /\ Continued(i)' <=> Continued(i)
              /\ \A kind : LineIs(i, kind)' <=> LineIs(i, kind)
              /\ \A name : InSection(i, name)' <=> InSection(i, name)
              /\ \A name : NameOf(i, name)' <=> NameOf(i, name)
              /\ \A option : Assigns(i, option)' <=> Assigns(i, option)
              /\ Assigned(i)' = Assigned(i)
<1> DEFINE n == Len(lines)
<1>1. n \in Nat /\ \A i \in 1..n : lines'[i] = lines[i]
  BY OneMoreLine
<1> HIDE DEF n
<1>2. \A i \in 1..(n + 1) : HasName(i)' <=> HasName(i)
  BY <1>1 DEF HasName
<1>3. \A i \in 1..n : Continued(i)' <=> Continued(i)
  BY <1>1, <1>2 DEF Continued
<1>4. \A i \in 1..n : \A kind : LineIs(i, kind)' <=> LineIs(i, kind)
  BY <1>1, <1>3 DEF LineIs
<1>5. ASSUME NEW i \in 1..n
      PROVE  /\ \A kind : {k \in 1..i : LineIs(k, kind)}' = {k \in 1..i : LineIs(k, kind)}
             /\ \A j \in 1..i : lines'[j] = lines[j]
  BY <1>1, <1>4
<1>6. \A i \in 1..n : \A name : InSection(i, name)' <=> InSection(i, name)
  BY <1>5 DEF InSection
<1>7. \A i \in 1..n : \A name : NameOf(i, name)' <=> NameOf(i, name)
  BY <1>5 DEF NameOf
<1>8. \A i \in 1..n : \A option : Assigns(i, option)' <=> Assigns(i, option)
  BY <1>3, <1>4, <1>6, <1>7 DEF Assigns
<1>9. \A i \in 1..n : Assigned(i)' = Assigned(i)
  BY <1>1, <1>4 DEF Assigned
<1> QED
  BY <1>2, <1>3, <1>4, <1>6, <1>7, <1>8, <1>9 DEF n

\* What the new line means, from what the parser has kept.
LEMMA NewLine ==
  ASSUME IniInv, NEW line \in Lines, ReadLine(line), NEW n, n = Len(lines)
  PROVE  /\ Continued(n + 1)' <=> Continues(line)
         /\ \A kind : LineIs(n + 1, kind)' <=> line.kind = kind /\ ~Continues(line)
<1>1. n \in Nat /\ lines'[n + 1] = line
  BY OneMoreLine DEF IniInv
<1>2. HasName(n + 1)' <=> HasName(n + 1)
  BY <1>1, EarlierLines DEF IniInv
<1>3. HasName(n + 1) <=> prev_name # NoText
  BY DEF IniInv, NameIsKept
<1>4. Continued(n + 1)' <=> Continues(line)
  BY <1>1, <1>2, <1>3 DEF Continued, Continues
<1> QED
  BY <1>1, <1>4 DEF LineIs

\* A section, or a name, is the last one if its line is read last, and stays the
\* last one if another line is.
LEMMA LastSection ==
  ASSUME IniInv, NEW line \in Lines, ReadLine(line), NEW n, n = Len(lines), NEW name
  PROVE  InSection(n + 1, name)' <=>
           IF line.kind = "section" /\ ~Continues(line)
             THEN line.name = name ELSE InSection(n, name)
<1> DEFINE at(i) == {k \in 1..i : LineIs(k, "section")}
<1>1. /\ n \in Nat /\ lines'[n + 1] = line
      /\ \A i \in 1..n : lines'[i] = lines[i]
  BY OneMoreLine DEF IniInv
<1>2. \A i \in 1..n : LineIs(i, "section")' <=> LineIs(i, "section")
  BY EarlierLines DEF IniInv
<1>3. LineIs(n + 1, "section")' <=> line.kind = "section" /\ ~Continues(line)
  BY NewLine
<1>4. at(n + 1)' = IF line.kind = "section" /\ ~Continues(line)
                     THEN at(n) \cup {n + 1} ELSE at(n)
  BY <1>1, <1>2, <1>3
<1>5. at(n) \subseteq 1..n
  OBVIOUS
<1>6. InSection(n, name) <=> \E j \in 1..n : LastOf(at(n), j) /\ lines[j].name = name
  BY DEF InSection
<1>7. InSection(n + 1, name)' <=>
        \E j \in 1..(n + 1) : LastOf(at(n + 1)', j) /\ lines'[j].name = name
  BY DEF InSection, LastOf
<1> HIDE DEF at
<1>8. CASE line.kind = "section" /\ ~Continues(line)
  BY <1>1, <1>4, <1>5, <1>7, <1>8 DEF LastOf
<1>9. CASE ~(line.kind = "section" /\ ~Continues(line))
  BY <1>1, <1>4, <1>5, <1>6, <1>7, <1>9 DEF LastOf
<1> QED
  BY <1>8, <1>9

LEMMA LastName ==
  ASSUME IniInv, NEW line \in Lines, ReadLine(line), NEW n, n = Len(lines), NEW name
  PROVE  NameOf(n + 1, name)' <=>
           IF line.kind = "pair" /\ ~Continues(line)
             THEN line.name = name ELSE NameOf(n, name)
<1> DEFINE at(i) == {k \in 1..i : LineIs(k, "pair")}
<1>1. /\ n \in Nat /\ lines'[n + 1] = line
      /\ \A i \in 1..n : lines'[i] = lines[i]
  BY OneMoreLine DEF IniInv
<1>2. \A i \in 1..n : LineIs(i, "pair")' <=> LineIs(i, "pair")
  BY EarlierLines DEF IniInv
<1>3. LineIs(n + 1, "pair")' <=> line.kind = "pair" /\ ~Continues(line)
  BY NewLine
<1>4. at(n + 1)' = IF line.kind = "pair" /\ ~Continues(line)
                     THEN at(n) \cup {n + 1} ELSE at(n)
  BY <1>1, <1>2, <1>3
<1>5. at(n) \subseteq 1..n
  OBVIOUS
<1>6. NameOf(n, name) <=> \E j \in 1..n : LastOf(at(n), j) /\ lines[j].name = name
  BY DEF NameOf
<1>7. NameOf(n + 1, name)' <=>
        \E j \in 1..(n + 1) : LastOf(at(n + 1)', j) /\ lines'[j].name = name
  BY DEF NameOf, LastOf
<1> HIDE DEF at
<1>8. CASE line.kind = "pair" /\ ~Continues(line)
  BY <1>1, <1>4, <1>5, <1>7, <1>8 DEF LastOf
<1>9. CASE ~(line.kind = "pair" /\ ~Continues(line))
  BY <1>1, <1>4, <1>5, <1>6, <1>7, <1>9 DEF LastOf
<1> QED
  BY <1>8, <1>9

\* The five things a line can be.
LEMMA LineCases ==
  ASSUME IniInv, NEW line \in Lines, ReadLine(line)
  PROVE  \/ Comment(line) /\ ~Continues(line) /\ line.kind = "skipped"
         \/ Continuation(line) /\ Continues(line)
         \/ Section(line) /\ ~Continues(line) /\ line.kind = "section"
         \/ Pair(line) /\ ~Continues(line) /\ line.kind = "pair"
         \/ BadLine(line) /\ ~Continues(line) /\ line.kind \in {"badSection", "bad"}
BY DEF ReadLine, Comment, Continuation, Section, Pair, BadLine, Continues

\* The width of remoteport, and what a remainder is.
LEMMA SixteenBits == PortMod = 65536
BY SMT DEF PortMod

LEMMA PortModPositive == PortMod \in Nat \ {0}
BY SMT, SixteenBits

LEMMA Remainder ==
  ASSUME NEW k \in Int, NEW m \in Nat \ {0}
  PROVE  k % m \in 0..(m - 1)
OBVIOUS

\* The handler sets the option of that name to the text, in the section [client], and
\* leaves the other one.
LEMMA HandlerSets ==
  ASSUME IniTypeOK, NEW name, NEW value \in Texts, config_handler(name, value)
  PROVE  /\ cfg' \in [remotehost : Texts \cup {NoText}, remoteport : 0..(PortMod - 1)]
         /\ \A o \in Options : section = ClientName /\ name = o => IsSetTo(o, value)'
         /\ \A o \in Options : ~(section = ClientName /\ name = o) =>
              /\ IsUnset(o)' <=> IsUnset(o)
              /\ \A t : IsSetTo(o, t)' <=> IsSetTo(o, t)
<1>1. cfg \in [remotehost : Texts \cup {NoText}, remoteport : 0..(PortMod - 1)]
  BY DEF IniTypeOK
<1>2. Numbers \subseteq Int
  BY IniAssumption
<1>3. \A k \in Int : k % PortMod \in 0..(PortMod - 1)
  BY Zenon, PortModPositive, Remainder
<1>4. /\ cfg'.remotehost = IF section = ClientName /\ name = "remotehost"
                              THEN value ELSE cfg.remotehost
      /\ cfg'.remoteport = IF section = ClientName /\ name = "remoteport"
                              THEN atoi(value) % PortMod ELSE cfg.remoteport
  BY DEF config_handler
<1>5. atoi(value) % PortMod \in 0..(PortMod - 1)
  <2>1. CASE value \in Numbers
    <3>1. atoi(value) = value /\ value \in Int
      BY <1>2, <2>1 DEF atoi
    <3> QED
      BY <1>3, <3>1
  <2>2. CASE value \notin Numbers
    <3>1. atoi(value) = 0
      BY <2>2 DEF atoi
    <3> QED
      BY <1>3, <3>1
  <2> QED
    BY <2>1, <2>2
<1>6. cfg' \in [remotehost : Texts \cup {NoText}, remoteport : 0..(PortMod - 1)]
  BY <1>1, <1>5 DEF config_handler
<1>7. atoi(value) % PortMod = IF value \in Numbers THEN value % 65536 ELSE 0
  BY SMT, <1>2, SixteenBits DEF atoi
<1> QED
  BY <1>4, <1>6, <1>7 DEF Options, IsSetTo, IsUnset

LEMMA IniTypeStep ==
  ASSUME IniInv, NEW line \in Lines, ReadLine(line)
  PROVE  IniTypeOK'
<1> USE IniAssumption
<1>1. IniTypeOK
  BY DEF IniInv
<1>2. lines' \in Seq(Lines) /\ Len(lines') <= MaxLines /\ Len(lines) + 1 \in 0..MaxLines
  BY <1>1, OneMoreLine
<1>3. ASSUME NEW name, NEW value \in Texts, config_handler(name, value)
      PROVE  cfg' \in [remotehost : Texts \cup {NoText}, remoteport : 0..(PortMod - 1)]
  BY <1>1, <1>3, HandlerSets
<1>4. CASE Comment(line)
  BY <1>1, <1>2, <1>4 DEF IniTypeOK, Comment
<1>5. CASE Continuation(line)
  <2>1. line.text \in Texts
    BY <1>1, <1>5, LineFields DEF IniTypeOK, Continuation, Continues
  <2> QED
    BY <1>1, <1>2, <1>3, <1>5, <2>1 DEF IniTypeOK, Continuation
<1>6. CASE Section(line)
  BY <1>1, <1>2, <1>6, LineFields DEF IniTypeOK, Section
<1>7. CASE Pair(line)
  <2>1. line.name \in Names \cup {NoText} /\ line.value \in Texts
    BY <1>7, LineFields DEF Pair
  <2>2. cfg' \in [remotehost : Texts \cup {NoText}, remoteport : 0..(PortMod - 1)]
    BY <1>3, <1>7, <2>1 DEF Pair
  <2> QED
    BY <1>1, <1>2, <1>7, <2>1, <2>2 DEF IniTypeOK, Pair
<1>8. CASE BadLine(line)
  BY <1>1, <1>2, <1>8 DEF IniTypeOK, BadLine
<1> QED
  BY <1>4, <1>5, <1>6, <1>7, <1>8 DEF ReadLine

\* The section and the name that the parser keeps are those of the lines.
LEMMA KeptStep ==
  ASSUME IniInv, NEW line \in Lines, ReadLine(line)
  PROVE  (SectionIsTheLast /\ NameIsTheLast /\ NameIsKept)'
<1>1. PICK n \in Nat : n = Len(lines) /\ Len(lines') = n + 1
  BY OneMoreLine DEF IniInv
<1>2. /\ NoText \notin Names /\ NoText \notin Sections
      /\ line.kind = "section" => line.name \in Sections \cup {NoText}
      /\ line.kind = "pair" => line.name \in Names \cup {NoText}
      /\ line.indent \in BOOLEAN
  BY IniAssumption, LineFields DEF Names
<1>3. \A x \in Sections : section = x <=> InSection(n, x)
  BY <1>1 DEF IniInv, SectionIsTheLast
<1>4. prev_name # NoText => \A x \in Names : prev_name = x <=> NameOf(n, x)
  BY <1>1 DEF IniInv, NameIsTheLast
<1>5. \A x \in Sections : section' = x <=> InSection(n + 1, x)'
  BY <1>1, <1>2, <1>3, LastSection, LineCases
    DEF Comment, Continuation, Section, Pair, BadLine
<1>6. prev_name' # NoText => \A x \in Names : prev_name' = x <=> NameOf(n + 1, x)'
  <2>1. \A x \in Names : NameOf(n + 1, x)' <=>
          IF line.kind = "pair" /\ ~Continues(line) THEN line.name = x ELSE NameOf(n, x)
    BY <1>1, LastName
  <2>2. CASE line.kind = "pair" /\ ~Continues(line)
    BY <2>1, <2>2, LineCases DEF Pair
  <2>3. CASE ~(line.kind = "pair" /\ ~Continues(line))
    <3>1. prev_name' = prev_name \/ prev_name' = NoText
      BY <2>3, LineCases DEF Comment, Continuation, Section, BadLine
    <3> QED
      BY <1>4, <2>1, <2>3, <3>1
  <2> QED
    BY <2>2, <2>3
<1>7. prev_name' # NoText <=> HasName(n + 2)'
  <2>1. /\ \A i \in 1..n : lines'[i] = lines[i]
        /\ lines'[n + 1] = line
    BY <1>1, OneMoreLine DEF IniInv
  <2>2. prev_name # NoText <=> HasName(n + 1)
    BY <1>1 DEF IniInv, NameIsKept
  <2>3. HasName(n + 2)' <=>
          Named(line) \/ (HasName(n + 1) /\ (EndsName(line) => line.indent))
    <3>1. HasName(n + 2)' <=>
            \E j \in 1..(n + 1) :
              /\ Named(lines'[j])
              /\ \A k \in (j + 1)..(n + 1) : EndsName(lines'[k]) => lines'[k].indent
      BY <1>1 DEF HasName, Named, EndsName
    <3>2. CASE Named(line)
      BY <1>1, <2>1, <3>1, <3>2
    <3>3. CASE ~Named(line)
      BY <1>1, <2>1, <3>1, <3>3 DEF HasName
    <3> QED
      BY <3>2, <3>3
  <2> QED
    BY <1>2, <2>2, <2>3, LineCases
      DEF Comment, Continuation, Section, Pair, BadLine, Continues, Named, EndsName
<1>8. Len(lines') + 1 = n + 2
  BY <1>1
<1> QED
  BY <1>1, <1>5, <1>6, <1>7, <1>8 DEF SectionIsTheLast, NameIsTheLast, NameIsKept

\* A pair and a continuation assign to the option they are for, in the section
\* [client], and no other line assigns anything.
LEMMA NewAssignment ==
  ASSUME IniInv, NEW line \in Lines, ReadLine(line), NEW n, n = Len(lines),
         NEW option \in Options
  PROVE  /\ Pair(line) =>
              /\ Assigns(n + 1, option)' <=> section = ClientName /\ line.name = option
              /\ Assigned(n + 1)' = line.value
         /\ Continuation(line) =>
              /\ Assigns(n + 1, option)' <=> section = ClientName /\ prev_name = option
              /\ Assigned(n + 1)' = line.text
         /\ ~Pair(line) /\ ~Continuation(line) => ~Assigns(n + 1, option)'
<1>1. /\ n \in Nat /\ lines'[n + 1] = line
      /\ option \in Names /\ ClientName \in Sections
  BY OneMoreLine, IniAssumption DEF IniInv, Names
<1>2. LineIs(n + 1, "pair")' <=> Pair(line)
  BY NewLine, LineCases DEF Pair
<1>3. Continued(n + 1)' <=> Continuation(line)
  BY NewLine, LineCases DEF Continuation
<1>4. ~(Pair(line) /\ Continuation(line))
  BY DEF Pair, Continuation
<1>5. Pair(line) => line.kind = "pair" /\ ~Continues(line)
  BY DEF Pair
<1>6. Continuation(line) => Continues(line) /\ prev_name # NoText
  BY DEF Continuation, Continues
<1>7. ASSUME Pair(line) \/ Continuation(line)
      PROVE  InSection(n + 1, ClientName)' <=> section = ClientName
  <2>1. InSection(n + 1, ClientName)' <=> InSection(n, ClientName)
    BY <1>5, <1>6, <1>7, LastSection
  <2> QED
    BY <1>1, <2>1 DEF IniInv, SectionIsTheLast
<1>8. Pair(line) => (NameOf(n + 1, option)' <=> line.name = option)
  BY <1>5, LastName
<1>9. Continuation(line) => (NameOf(n + 1, option)' <=> prev_name = option)
  <2>1. Continuation(line) => (NameOf(n + 1, option)' <=> NameOf(n, option))
    BY <1>6, LastName
  <2> QED
    BY <1>1, <1>6, <2>1 DEF IniInv, NameIsTheLast
<1>10. Assigns(n + 1, option)' <=>
         /\ Pair(line) \/ Continuation(line)
         /\ InSection(n + 1, ClientName)' /\ NameOf(n + 1, option)'
  BY <1>2, <1>3 DEF Assigns
<1>11. Assigned(n + 1)' = IF Pair(line) THEN line.value ELSE line.text
  BY <1>1, <1>2 DEF Assigned
<1> QED
  BY <1>4, <1>7, <1>8, <1>9, <1>10, <1>11

\* The text of an option is that of the last line that assigns to it.
LastAssignment(o, n) ==
  LET own == {i \in 1..n : Assigns(i, o)}
  IN  IF own = {} THEN IsUnset(o)
      ELSE \E i \in own : LastOf(own, i) /\ IsSetTo(o, Assigned(i))

LEMMA AssignmentStep ==
  ASSUME IniInv, NEW line \in Lines, ReadLine(line), NEW n \in Nat, n = Len(lines),
         NEW o \in Options, LastAssignment(o, n)
  PROVE  LastAssignment(o, n + 1)'
<1> DEFINE own(k) == {i \in 1..k : Assigns(i, o)}
<1>1. \A i \in 1..n : (Assigns(i, o)' <=> Assigns(i, o)) /\ Assigned(i)' = Assigned(i)
  BY EarlierLines DEF IniInv
<1>2. own(n + 1)' = IF Assigns(n + 1, o)' THEN own(n) \cup {n + 1} ELSE own(n)
  BY <1>1
<1>3. own(n) \subseteq 1..n
  OBVIOUS
<1>4. LastAssignment(o, n) <=>
        IF own(n) = {} THEN IsUnset(o)
        ELSE \E i \in own(n) : LastOf(own(n), i) /\ IsSetTo(o, Assigned(i))
  BY DEF LastAssignment
<1>5. LastAssignment(o, n + 1)' <=>
        IF own(n + 1)' = {} THEN IsUnset(o)'
        ELSE \E i \in own(n + 1)' : LastOf(own(n + 1)', i) /\ IsSetTo(o, Assigned(i))'
  BY DEF LastAssignment, LastOf
<1> HIDE DEF own
<1>6. IniTypeOK /\ (line.kind # "skipped" => line.text \in Texts)
      /\ (line.kind = "pair" => line.value \in Texts)
  BY LineFields DEF IniInv
<1>7. CASE Assigns(n + 1, o)'
  <2>1. IsSetTo(o, Assigned(n + 1))'
    <3>1. CASE Pair(line)
      BY <1>6, <1>7, <3>1, HandlerSets, NewAssignment DEF Pair, IsSetTo
    <3>2. CASE Continuation(line)
      BY <1>6, <1>7, <3>2, HandlerSets, NewAssignment DEF Continuation, Continues, IsSetTo
    <3> QED
      BY <1>7, <3>1, <3>2, NewAssignment
  <2>2. n + 1 \in own(n + 1)' /\ LastOf(own(n + 1)', n + 1)
    BY <1>2, <1>3, <1>7 DEF LastOf
  <2> QED
    BY <1>5, <2>1, <2>2
<1>8. CASE ~Assigns(n + 1, o)'
  <2>1. (IsUnset(o)' <=> IsUnset(o)) /\ \A t : IsSetTo(o, t)' <=> IsSetTo(o, t)
    <3>1. CASE Pair(line)
      BY <1>6, <1>8, <3>1, HandlerSets, NewAssignment DEF Pair
    <3>2. CASE Continuation(line)
      BY <1>6, <1>8, <3>2, HandlerSets, NewAssignment DEF Continuation, Continues
    <3>3. CASE cfg' = cfg
      BY <3>3 DEF IsSetTo, IsUnset
    <3> QED
      BY <3>1, <3>2, <3>3 DEF ReadLine, Comment, Section, BadLine
  <2>2. \A i \in 1..n : IsSetTo(o, Assigned(i))' <=> IsSetTo(o, Assigned(i))
    BY <1>1, <2>1 DEF IsSetTo
  <2> QED
    BY <1>1, <1>2, <1>3, <1>4, <1>5, <1>8, <2>1, <2>2
<1> QED
  BY <1>7, <1>8

\* The error is the first line that means nothing.
FirstError(n) ==
  LET bad == {i \in 1..n : LineIs(i, "bad") \/ LineIs(i, "badSection")}
  IN  IF bad = {} THEN iniError = 0 ELSE iniError \in bad /\ \A i \in bad : iniError <= i

LEMMA ErrorStep ==
  ASSUME IniInv, NEW line \in Lines, ReadLine(line), NEW n \in Nat, n = Len(lines),
         FirstError(n)
  PROVE  FirstError(n + 1)'
<1> DEFINE bad(k) == {i \in 1..k : LineIs(i, "bad") \/ LineIs(i, "badSection")}
<1>1. \A i \in 1..n : \A kind : LineIs(i, kind)' <=> LineIs(i, kind)
  BY EarlierLines DEF IniInv
<1>2. LineIs(n + 1, "bad")' \/ LineIs(n + 1, "badSection")' <=> BadLine(line)
  BY NewLine, LineCases DEF BadLine
<1>3. bad(n + 1)' = IF BadLine(line) THEN bad(n) \cup {n + 1} ELSE bad(n)
  BY <1>1, <1>2
<1>4. bad(n) \subseteq 1..n
  OBVIOUS
<1>5. IF bad(n) = {} THEN iniError = 0 ELSE iniError \in bad(n) /\ \A i \in bad(n) : iniError <= i
  BY DEF FirstError
<1>6. FirstError(n + 1)' <=>
        IF bad(n + 1)' = {} THEN iniError' = 0
        ELSE iniError' \in bad(n + 1)' /\ \A i \in bad(n + 1)' : iniError' <= i
  BY DEF FirstError
<1> HIDE DEF bad
<1>7. CASE BadLine(line)
  <2>1. iniError' = IF iniError = 0 THEN n + 1 ELSE iniError
    BY <1>7 DEF BadLine
  <2>2. CASE bad(n) = {}
    BY <1>3, <1>5, <1>6, <1>7, <2>1, <2>2
  <2>3. CASE bad(n) # {}
    BY <1>3, <1>4, <1>5, <1>6, <1>7, <2>1, <2>3
  <2> QED
    BY <2>2, <2>3
<1>8. CASE ~BadLine(line)
  <2>1. iniError' = iniError
    BY <1>8 DEF ReadLine, Comment, Continuation, Section, Pair
  <2> QED
    BY <1>3, <1>5, <1>6, <1>8, <2>1
<1> QED
  BY <1>7, <1>8

\* Every line keeps the invariant.
LEMMA IniStep ==
  ASSUME IniInv, NEW line \in Lines, ReadLine(line)
  PROVE  IniInv'
<1>1. PICK n \in Nat : n = Len(lines) /\ Len(lines') = n + 1
  BY OneMoreLine DEF IniInv
<1>2. (\A o \in Options : LastAssignment(o, n)) /\ FirstError(n)
  BY <1>1 DEF IniInv, ConfigAsWritten, LastAssignment, FirstError
<1>3. (\A o \in Options : LastAssignment(o, n + 1)') /\ FirstError(n + 1)'
  BY <1>1, <1>2, AssignmentStep, ErrorStep
<1>4. ConfigAsWritten'
  BY <1>1, <1>3 DEF ConfigAsWritten, LastAssignment, FirstError
<1> QED
  BY <1>4, IniTypeStep, KeptStep DEF IniInv

-----------------------------------------------------------------------------
\* The answer: where the tokens are in the text.
Tokens == 1..Len(tokens)
Bracket(i) == tokens[i].type \in Openers

StartsInText ==
  /\ Len(tokens) <= Len(text)
  /\ \A i \in Tokens :
       /\ i <= tokens[i].start /\ tokens[i].start <= Len(text)
       /\ tokens[i].size <= Len(text)
  /\ \A i, j \in Tokens : i < j => tokens[i].start < tokens[j].start

\* A scalar ends where it starts, and a bracket at a bracket of its kind, its own.
EndsInText ==
  /\ \A i \in Tokens : ~Bracket(i) =>
       tokens[i].end = tokens[i].start /\ text[tokens[i].start] \in Scalars
  /\ \A i \in Tokens : Bracket(i) => text[tokens[i].start] = tokens[i].type
  /\ \A i \in Tokens : Bracket(i) /\ ~Open(i) =>
       /\ tokens[i].start < tokens[i].end /\ tokens[i].end <= Len(text)
       /\ text[tokens[i].end] = Closer(tokens[i].type)
  /\ \A i, j \in Tokens : i < j /\ Bracket(i) /\ Bracket(j) /\ ~Open(i) =>
       tokens[i].end # tokens[j].end

Nested ==
  \A i, j \in Tokens : Encloses(i, j) => Open(i) \/ (~Open(j) /\ tokens[j].end <= tokens[i].end)

SizesAreChildren ==
  \A i \in Tokens : Bracket(i) => tokens[i].size = Cardinality({j \in Tokens : Parent(i, j)})

SuperIsInnermost ==
  IF OpenTokens = {} THEN toksuper = 0 ELSE IsInnermost(toksuper, OpenTokens)

TreeInv == StartsInText /\ EndsInText /\ Nested /\ SizesAreChildren /\ SuperIsInnermost

\* While the parser runs every lexeme has its token.
EveryLexeme ==
  \A p \in 1..Len(text) :
    /\ text[p] \in Openers \cup Scalars => \E i \in Tokens : tokens[i].start = p
    /\ text[p] \in Closers => \E i \in Tokens : Bracket(i) /\ tokens[i].end = p
    /\ text[p] \notin {"bad", "cut"}

\* The open brackets in their order.
Ascending(s, n) == \A a, b \in 1..n : a < b => s[a] < s[b]
Lists(s, n, S) == s \in [1..n -> S] /\ Ascending(s, n) /\ \A i \in S : \E a \in 1..n : s[a] = i
OpenInOrder == \E n \in 0..Len(tokens) : \E s \in [1..n -> OpenTokens] : Lists(s, n, OpenTokens)

\* Whatever follows the text: the brackets closed so far are matched as the tokens say.
Extends(u, t) == Len(t) <= Len(u) /\ \A p \in 1..Len(t) : u[p] = t[p]
IsMatch(u, match) ==
  /\ Cardinality(At(u, Openers)) = Cardinality(At(u, Closers))
  /\ match \in [At(u, Openers) -> At(u, Closers)]
  /\ Matches(u, match)
MatchedAsParsed ==
  \A u \in Seq(Lexemes) : \A match : Extends(u, text) /\ IsMatch(u, match) =>
    \A i \in Tokens : Bracket(i) /\ ~Open(i) => match[tokens[i].start] = tokens[i].end

Working == result = "none" => EveryLexeme /\ OpenInOrder /\ MatchedAsParsed

JsmnInv == JsmnTypeOK /\ TreeInv /\ Working /\ ResultIsRight /\ AnswerUnderstood

TokenSet == [type : Openers \cup {"scalar"}, start : 1..MaxText, end : 0..MaxText,
             size : 0..MaxText]

\* A lexeme is appended to the text.
LEMMA OneMoreLexeme ==
  ASSUME JsmnTypeOK, NEW lexeme \in Lexemes, ParseLexeme(lexeme), NEW m, m = Len(text)
  PROVE  /\ m \in Nat /\ m < MaxText
         /\ text' \in Seq(Lexemes) /\ Len(text') = m + 1 /\ text'[m + 1] = lexeme
         /\ \A p \in 1..m : text[p] \in Lexemes /\ text'[p] = text[p]
<1>1. text \in Seq(Lexemes) /\ m \in Nat
  BY DEF JsmnTypeOK
<1>2. text' = Append(text, lexeme) /\ m < MaxText
  BY DEF ParseLexeme
<1>3. text' \in Seq(Lexemes) /\ Len(text') = m + 1 /\ text'[m + 1] = lexeme
  BY <1>1, <1>2
<1>4. \A p \in 1..m : text[p] \in Lexemes /\ text'[p] = text[p]
  BY <1>1, <1>2
<1> QED
  BY <1>1, <1>2, <1>3, <1>4

\* The fields of the tokens.
LEMMA TokenFields ==
  ASSUME JsmnTypeOK
  PROVE  /\ Len(tokens) \in Nat /\ Len(tokens) <= NumTokens
         /\ Len(text) \in Nat /\ toksuper \in 0..Len(tokens)
         /\ \A i \in Tokens :
              /\ tokens[i].type \in Openers \cup {"scalar"}
              /\ tokens[i].start \in Nat /\ tokens[i].end \in Nat /\ tokens[i].size \in Nat
<1>1. /\ Len(tokens) \in Nat /\ Len(tokens) <= NumTokens
      /\ Len(text) \in Nat /\ toksuper \in 0..Len(tokens)
      /\ tokens \in Seq(TokenSet) /\ MaxText \in Nat
  BY JsmnAssumption DEF JsmnTypeOK, TokenSet
<1>2. ASSUME NEW i \in Tokens
      PROVE  /\ tokens[i].type \in Openers \cup {"scalar"}
             /\ tokens[i].start \in Nat /\ tokens[i].end \in Nat /\ tokens[i].size \in Nat
  <2>1. tokens[i] \in TokenSet
    BY <1>1 DEF Tokens
  <2> QED
    BY <1>1, <2>1 DEF TokenSet
<1> QED
  BY <1>1, <1>2

\* A token more, and the token toksuper has a child more.
LEMMA AllocFacts ==
  ASSUME JsmnTypeOK, StartsInText, Len(text) < MaxText,
         NEW token \in TokenSet, Alloc(token), NEW n, n = Len(tokens)
  PROVE  /\ n \in Nat /\ n < NumTokens
         /\ tokens' \in Seq(TokenSet) /\ Len(tokens') = n + 1 /\ tokens'[n + 1] = token
         /\ \A i \in 1..n :
              /\ tokens'[i].type = tokens[i].type
              /\ tokens'[i].start = tokens[i].start /\ tokens'[i].end = tokens[i].end
              /\ tokens'[i].size = IF i = toksuper THEN tokens[i].size + 1 ELSE tokens[i].size
<1> DEFINE grown == IF toksuper = 0 THEN tokens ELSE [tokens EXCEPT ![toksuper].size = @ + 1]
<1>1. /\ n \in Nat /\ n < NumTokens /\ toksuper \in 0..n
      /\ tokens \in Seq(TokenSet) /\ Len(text) \in Nat /\ MaxText \in Nat
  BY JsmnAssumption DEF JsmnTypeOK, TokenSet, Alloc
<1>2. \A i \in 1..n : tokens[i] \in TokenSet /\ tokens[i].size <= Len(text)
  BY <1>1 DEF StartsInText, Tokens
<1>3. /\ grown \in Seq(TokenSet) /\ Len(grown) = n
      /\ \A i \in 1..n :
           grown[i] = IF i = toksuper THEN [tokens[i] EXCEPT !.size = @ + 1] ELSE tokens[i]
  <2>1. CASE toksuper = 0
    BY <1>1, <2>1
  <2>2. CASE toksuper # 0
    <3>1. toksuper \in 1..n
      BY <1>1, <2>2
    <3>2. tokens[toksuper] \in TokenSet /\ tokens[toksuper].size + 1 \in 0..MaxText
      <4>1. tokens[toksuper] \in TokenSet /\ tokens[toksuper].size <= Len(text)
        BY <1>2, <3>1
      <4>2. tokens[toksuper].size \in 0..MaxText
        BY <4>1 DEF TokenSet
      <4> QED
        BY <1>1, <4>1, <4>2
    <3>3. [tokens[toksuper] EXCEPT !.size = @ + 1] \in TokenSet
      BY <3>2 DEF TokenSet
    <3>4. grown = [tokens EXCEPT ![toksuper] = [tokens[toksuper] EXCEPT !.size = @ + 1]]
      BY <1>1, <2>2, <3>1
    <3> HIDE DEF grown
    <3>5. grown \in Seq(TokenSet) /\ Len(grown) = n
      BY <1>1, <3>1, <3>3, <3>4
    <3>6. \A i \in 1..n :
            grown[i] = IF i = toksuper THEN [tokens[i] EXCEPT !.size = @ + 1] ELSE tokens[i]
      <4>1. DOMAIN tokens = 1..n
        BY <1>1
      <4> QED
        BY <3>1, <3>4, <4>1
    <3> QED
      BY <3>5, <3>6
  <2> QED
    BY <2>1, <2>2
<1>4. tokens' = Append(grown, token)
  BY DEF Alloc
<1> HIDE DEF grown
<1>5. /\ tokens' \in Seq(TokenSet) /\ Len(tokens') = n + 1 /\ tokens'[n + 1] = token
      /\ \A i \in 1..n : tokens'[i] = grown[i]
  BY <1>1, <1>3, <1>4
<1>6. ASSUME NEW i \in 1..n
      PROVE  /\ tokens'[i].type = tokens[i].type
             /\ tokens'[i].start = tokens[i].start /\ tokens'[i].end = tokens[i].end
             /\ tokens'[i].size = IF i = toksuper THEN tokens[i].size + 1 ELSE tokens[i].size
  <2>1. tokens[i] \in TokenSet
    BY <1>2
  <2>2. tokens'[i] = IF i = toksuper THEN [tokens[i] EXCEPT !.size = @ + 1] ELSE tokens[i]
    BY <1>3, <1>5
  <2> QED
    BY <2>1, <2>2 DEF TokenSet
<1> QED
  BY <1>1, <1>5, <1>6

LEMMA TokenAppended ==
  ASSUME JsmnTypeOK, TreeInv, NEW lexeme \in Lexemes, ParseLexeme(lexeme),
         NEW token \in TokenSet, Alloc(token)
  PROVE  /\ Len(tokens) \in Nat /\ Len(tokens) < NumTokens
         /\ tokens' \in Seq(TokenSet)
         /\ Len(tokens') = Len(tokens) + 1 /\ tokens'[Len(tokens) + 1] = token
         /\ \A i \in 1..Len(tokens) :
              /\ tokens'[i].type = tokens[i].type
              /\ tokens'[i].start = tokens[i].start /\ tokens'[i].end = tokens[i].end
<1>1. PICK n : n = Len(tokens)
  OBVIOUS
<1>2. StartsInText /\ Len(text) < MaxText
  BY OneMoreLexeme DEF TreeInv
<1>3. /\ n \in Nat /\ n < NumTokens /\ tokens' \in Seq(TokenSet)
      /\ Len(tokens') = n + 1 /\ tokens'[n + 1] = token
  BY <1>1, <1>2, AllocFacts
<1>4. \A i \in 1..n :
        /\ tokens'[i].type = tokens[i].type
        /\ tokens'[i].start = tokens[i].start /\ tokens'[i].end = tokens[i].end
  BY <1>1, <1>2, AllocFacts, SMTT(30)
<1> QED
  BY <1>1, <1>3, <1>4

\* A bracket is given its end.
LEMMA CloseFacts ==
  ASSUME JsmnTypeOK, NEW n, n = Len(tokens), NEW i \in 1..n, NEW e \in 0..MaxText,
         tokens' = [tokens EXCEPT ![i].end = e]
  PROVE  /\ n \in Nat /\ tokens' \in Seq(TokenSet) /\ Len(tokens') = n
         /\ \A j \in 1..n :
              /\ tokens'[j].type = tokens[j].type
              /\ tokens'[j].start = tokens[j].start /\ tokens'[j].size = tokens[j].size
              /\ tokens'[j].end = IF j = i THEN e ELSE tokens[j].end
<1>1. n \in Nat /\ tokens \in Seq(TokenSet)
  BY DEF JsmnTypeOK, TokenSet
<1>2. \A j \in 1..n : tokens[j] \in TokenSet
  BY <1>1
<1>3. [tokens[i] EXCEPT !.end = e] \in TokenSet
  BY <1>2 DEF TokenSet
<1>4. /\ tokens' \in Seq(TokenSet) /\ Len(tokens') = n
      /\ \A j \in 1..n : tokens'[j] = IF j = i THEN [tokens[j] EXCEPT !.end = e] ELSE tokens[j]
  BY <1>1, <1>3
<1>5. ASSUME NEW j \in 1..n
      PROVE  /\ tokens'[j].type = tokens[j].type
             /\ tokens'[j].start = tokens[j].start /\ tokens'[j].size = tokens[j].size
             /\ tokens'[j].end = IF j = i THEN e ELSE tokens[j].end
  <2>1. tokens[j] \in TokenSet
    BY <1>2
  <2>2. tokens'[j] = IF j = i THEN [tokens[j] EXCEPT !.end = e] ELSE tokens[j]
    BY <1>4
  <2> QED
    BY <2>1, <2>2 DEF TokenSet
<1> QED
  BY <1>1, <1>4, <1>5

LEMMA Kinds ==
  /\ "scalar" \notin Openers
  /\ \A x \in Openers : x \notin Closers /\ x \notin Scalars /\ Closer(x) \in Closers
  /\ \A x \in Closers : x \notin Scalars
  /\ "bad" \notin Openers \cup Closers \cup Scalars
  /\ "cut" \notin Openers \cup Closers \cup Scalars
BY DEF Openers, Closers, Scalars, Closer

\* Only brackets are open, and toksuper is the innermost of them.
LEMMA OpenFacts ==
  ASSUME JsmnTypeOK, TreeInv
  PROVE  /\ \A i \in Tokens : Open(i) => Bracket(i) /\ i \in OpenTokens
         /\ OpenTokens = {} => toksuper = 0
         /\ OpenTokens # {} => toksuper \in OpenTokens
         /\ \A i \in OpenTokens : i \in Tokens /\ Open(i) /\ Bracket(i) /\ i <= toksuper
<1>1. \A i \in Tokens : i \in Nat \ {0} /\ i <= tokens[i].start /\ tokens[i].start \in Nat
  BY TokenFields DEF TreeInv, StartsInText, Tokens
<1>2. \A i \in Tokens : Open(i) => Bracket(i)
  BY <1>1 DEF TreeInv, EndsInText, Open
<1>3. OpenTokens \subseteq Tokens /\ \A i \in OpenTokens : Open(i)
  BY DEF OpenTokens, Tokens
<1>4. \A i \in Tokens : Open(i) => i \in OpenTokens
  BY DEF OpenTokens, Tokens
<1> QED
  BY <1>2, <1>3, <1>4 DEF TreeInv, SuperIsInnermost, IsInnermost

\* A new token: it comes after all others and is a child of toksuper.
LEMMA AllocTree ==
  ASSUME JsmnTypeOK, TreeInv, NEW lexeme \in Lexemes, ParseLexeme(lexeme),
         NEW token \in TokenSet, Alloc(token), token.start = Here, token.size = 0,
         \/ lexeme \in Openers /\ token.type = lexeme /\ token.end = 0
         \/ lexeme \in Scalars /\ token.type = "scalar" /\ token.end = Here
  PROVE  (StartsInText /\ EndsInText /\ Nested /\ SizesAreChildren)'
<1>1. PICK n \in Nat, m \in Nat :
        /\ n = Len(tokens) /\ n + 1 = Len(tokens') /\ Tokens = 1..n /\ Tokens' = 1..(n + 1)
        /\ m = Len(text) /\ m + 1 = Len(text') /\ n <= m
  <2>1. Len(text) < MaxText /\ Len(text) \in Nat /\ Len(text') = Len(text) + 1
    BY OneMoreLexeme
  <2>2. Len(tokens) \in Nat /\ Len(tokens') = Len(tokens) + 1
    BY TokenAppended
  <2> QED
    BY <2>1, <2>2 DEF Tokens, TreeInv, StartsInText
<1>2. /\ text'[m + 1] = lexeme
      /\ \A p \in 1..m : text'[p] = text[p]
      /\ m < MaxText
  BY <1>1, OneMoreLexeme
<1>3. /\ tokens'[n + 1] = token /\ token.start = m + 1
      /\ \A i \in 1..n :
           /\ tokens'[i].type = tokens[i].type
           /\ tokens'[i].start = tokens[i].start /\ tokens'[i].end = tokens[i].end
           /\ tokens'[i].size = IF i = toksuper THEN tokens[i].size + 1 ELSE tokens[i].size
  BY <1>1, <1>2, AllocFacts DEF TreeInv, Here
<1>4. \A i \in 1..n :
        /\ tokens[i].start \in Nat /\ tokens[i].end \in Nat /\ tokens[i].size \in Nat
        /\ tokens[i].type \in Openers \cup {"scalar"}
        /\ i <= tokens[i].start /\ tokens[i].start <= m /\ tokens[i].size <= m
        /\ tokens[i].end <= m
  <2>1. \A i \in 1..n :
          /\ tokens[i].start \in Nat /\ tokens[i].end \in Nat /\ tokens[i].size \in Nat
          /\ tokens[i].type \in Openers \cup {"scalar"}
          /\ i <= tokens[i].start /\ tokens[i].start <= m /\ tokens[i].size <= m
    BY <1>1, TokenFields DEF TreeInv, StartsInText
  <2>2. \A i \in 1..n : tokens[i].end <= m
    BY <1>1, <2>1 DEF TreeInv, EndsInText, Open
  <2> QED
    BY <2>1, <2>2
<1>5. StartsInText'
  <2>1. \A i \in 1..(n + 1) :
          /\ i <= tokens'[i].start /\ tokens'[i].start <= m + 1
          /\ tokens'[i].size <= m + 1
    <3>1. ASSUME NEW i \in 1..n
          PROVE  /\ i <= tokens'[i].start /\ tokens'[i].start <= m + 1
                 /\ tokens'[i].size <= m + 1
      <4>1. /\ tokens'[i].start = tokens[i].start
            /\ tokens'[i].size \in {tokens[i].size, tokens[i].size + 1}
        BY <1>3
      <4>2. /\ tokens[i].start \in Nat /\ tokens[i].size \in Nat
            /\ i <= tokens[i].start /\ tokens[i].start <= m /\ tokens[i].size <= m
        BY <1>4
      <4> QED
        BY <1>1, <4>1, <4>2
    <3>2. /\ n + 1 <= tokens'[n + 1].start /\ tokens'[n + 1].start <= m + 1
          /\ tokens'[n + 1].size <= m + 1
      BY <1>1, <1>3
    <3>3. \A i \in 1..(n + 1) : i \in 1..n \/ i = n + 1
      BY <1>1
    <3> QED
      BY <3>1, <3>2, <3>3
  <2>2. \A i, j \in 1..n : i < j => tokens[i].start < tokens[j].start
    BY <1>1 DEF TreeInv, StartsInText
  <2>3. \A i, j \in 1..(n + 1) : i < j => tokens'[i].start < tokens'[j].start
    <3>1. \A i \in 1..n : tokens'[i].start < tokens'[n + 1].start
      BY <1>3, <1>4
    <3> QED
      BY <1>3, <2>2, <3>1
  <2>4. Len(tokens') <= Len(text')
    BY <1>1
  <2>5. \A i \in Tokens' :
          /\ i <= tokens'[i].start /\ tokens'[i].start <= Len(text')
          /\ tokens'[i].size <= Len(text')
    BY <1>1, <2>1
  <2>6. \A i, j \in Tokens' : i < j => tokens'[i].start < tokens'[j].start
    BY <1>1, <2>3
  <2> QED
    BY <2>4, <2>5, <2>6 DEF StartsInText
<1>6. /\ \A i \in 1..n : (Open(i)' <=> Open(i)) /\ (Bracket(i)' <=> Bracket(i))
      /\ Bracket(n + 1)' <=> lexeme \in Openers
      /\ Open(n + 1)' <=> lexeme \in Openers
  BY <1>1, <1>3, Kinds DEF Open, Bracket, Here
<1>7. EndsInText'
  <2>1. \A i \in 1..(n + 1) : ~Bracket(i)' =>
          tokens'[i].end = tokens'[i].start /\ text'[tokens'[i].start] \in Scalars
    <3>1. \A i \in 1..n : ~Bracket(i) =>
            tokens[i].end = tokens[i].start /\ text[tokens[i].start] \in Scalars
      BY <1>1 DEF TreeInv, EndsInText
    <3> QED
      BY <1>1, <1>2, <1>3, <1>4, <1>6, <3>1 DEF Here
  <2>2. \A i \in 1..(n + 1) : Bracket(i)' => text'[tokens'[i].start] = tokens'[i].type
    <3>1. \A i \in 1..n : Bracket(i) => text[tokens[i].start] = tokens[i].type
      BY <1>1 DEF TreeInv, EndsInText
    <3> QED
      BY <1>1, <1>2, <1>3, <1>4, <1>6, <3>1, Kinds DEF Here
  <2>3. \A i \in 1..(n + 1) : Bracket(i)' /\ ~Open(i)' =>
          /\ tokens'[i].start < tokens'[i].end /\ tokens'[i].end <= m + 1
          /\ text'[tokens'[i].end] = Closer(tokens'[i].type)
    <3>1. \A i \in 1..n : Bracket(i) /\ ~Open(i) =>
            /\ tokens[i].start < tokens[i].end
            /\ text[tokens[i].end] = Closer(tokens[i].type)
      BY <1>1 DEF TreeInv, EndsInText
    <3>2. ASSUME NEW i \in 1..n, Bracket(i), ~Open(i)
          PROVE  tokens[i].end \in 1..m
      BY <1>1, <1>4, <3>1, <3>2
    <3> QED
      BY <1>1, <1>2, <1>3, <1>4, <1>6, <3>1, <3>2
  <2>4. \A i, j \in 1..(n + 1) : i < j /\ Bracket(i)' /\ Bracket(j)' /\ ~Open(i)' =>
          tokens'[i].end # tokens'[j].end
    <3>1. \A i, j \in 1..n : i < j /\ Bracket(i) /\ Bracket(j) /\ ~Open(i) =>
            tokens[i].end # tokens[j].end
      BY <1>1 DEF TreeInv, EndsInText
    <3>2. \A i \in 1..n : Bracket(i)' /\ ~Open(i)' => tokens'[i].end # 0
      BY <1>6, <1>3 DEF Open
    <3>3. Bracket(n + 1)' => tokens'[n + 1].end = 0
      BY <1>6 DEF Open
    <3> QED
      BY <1>1, <1>3, <1>6, <3>1, <3>2, <3>3
  <2> QED
    BY <1>1, <2>1, <2>2, <2>3, <2>4 DEF EndsInText
<1>8. /\ \A i, j \in 1..n : Encloses(i, j)' <=> Encloses(i, j)
      /\ \A i \in 1..n : Encloses(i, n + 1)' <=> i \in OpenTokens
      /\ \A j \in 1..(n + 1) : ~Encloses(n + 1, j)'
  <2>1. \A i, j \in 1..n : Encloses(i, j)' <=> Encloses(i, j)
    BY <1>1, <1>3, <1>6 DEF Encloses
  <2>2. ASSUME NEW i \in 1..n
        PROVE  Encloses(i, n + 1)' <=> Bracket(i) /\ Open(i)
    <3>1. /\ i < n + 1 /\ tokens'[n + 1].start = m + 1 /\ ~(m + 1 < tokens[i].end)
          /\ tokens'[i].end = tokens[i].end /\ tokens'[i].type = tokens[i].type
      BY <1>1, <1>3, <1>4
    <3>2. Open(i)' <=> Open(i)
      BY <3>1 DEF Open
    <3> QED
      BY <3>1, <3>2 DEF Encloses, Bracket
  <2>3. \A i \in 1..n : Bracket(i) /\ Open(i) <=> i \in OpenTokens
    BY <1>1, OpenFacts
  <2>4. \A j \in 1..(n + 1) : ~Encloses(n + 1, j)'
    BY DEF Encloses
  <2> QED
    BY <2>1, <2>2, <2>3, <2>4
<1>9. Nested'
  <2>1. \A i, j \in 1..n : Encloses(i, j) =>
          Open(i) \/ (~Open(j) /\ tokens[j].end <= tokens[i].end)
    BY <1>1 DEF TreeInv, Nested
  <2>2. \A i, j \in 1..(n + 1) : Encloses(i, j)' =>
          Open(i)' \/ (~Open(j)' /\ tokens'[j].end <= tokens'[i].end)
    BY <1>1, <1>3, <1>6, <1>8, <2>1, OpenFacts
  <2> QED
    BY <1>1, <2>2 DEF Nested
<1>10. SizesAreChildren'
  <2> DEFINE kids(i, k) == {j \in 1..k : Parent(i, j)}
  <2>1. \A i, j \in 1..n : Parent(i, j)' <=> Parent(i, j)
    <3>1. ASSUME NEW i \in 1..n, NEW j \in 1..n
          PROVE  Parent(i, j)' <=> Parent(i, j)
      <4>1. \A k \in 1..n : Encloses(k, j)' <=> Encloses(k, j)
        BY <1>8
      <4>2. ~Encloses(n + 1, j)' /\ \A k \in 1..(n + 1) : k \in 1..n \/ k = n + 1
        BY <1>1, <1>8
      <4>3. (\A k \in 1..(n + 1) : Encloses(k, j)' => k <= i)
              <=> \A k \in 1..n : Encloses(k, j) => k <= i
        BY <1>1, <4>1, <4>2
      <4> QED
        BY <1>1, <4>1, <4>3 DEF Parent
    <3> QED
      BY <3>1
  <2>2. \A i \in 1..n : Parent(i, n + 1)' <=> i = toksuper
    <3>1. \A i \in 1..n : Parent(i, n + 1)' <=>
            i \in OpenTokens /\ \A k \in 1..n : k \in OpenTokens => k <= i
      BY <1>1, <1>8 DEF Parent
    <3>2. OpenTokens \subseteq 1..n /\ toksuper \in Nat
      BY <1>1, TokenFields DEF OpenTokens
    <3> QED
      BY <1>1, <3>1, <3>2, OpenFacts
  <2>3. \A j \in 1..(n + 1) : ~Parent(n + 1, j)'
    BY <1>8 DEF Parent
  <2>4. ASSUME NEW i \in 1..n, Bracket(i)
        PROVE  tokens'[i].size = Cardinality(kids(i, n + 1)')
    <3>1. tokens[i].size = Cardinality(kids(i, n))
      BY <1>1, <2>4 DEF TreeInv, SizesAreChildren
    <3>2. IsFiniteSet(kids(i, n)) /\ n + 1 \notin kids(i, n)
      <4>1. n + 1 \notin 1..n /\ kids(i, n) \in SUBSET (1..n)
        OBVIOUS
      <4>2. IsFiniteSet(1..n)
        BY FS_Interval
      <4> HIDE DEF kids
      <4> QED
        BY <4>1, <4>2, FS_Subset
    <3>3. kids(i, n + 1)' = IF i = toksuper THEN kids(i, n) \cup {n + 1} ELSE kids(i, n)
      BY <1>1, <2>1, <2>2
    <3> HIDE DEF kids
    <3>4. Cardinality(kids(i, n) \cup {n + 1}) = Cardinality(kids(i, n)) + 1
      BY <3>2, FS_AddElement
    <3> QED
      BY <1>3, <3>1, <3>3, <3>4
  <2>5. tokens'[n + 1].size = Cardinality(kids(n + 1, n + 1)')
    <3>1. kids(n + 1, n + 1)' = {}
      BY <2>3
    <3> QED
      BY <1>3, <3>1, FS_EmptySet
  <2>6. \A i \in 1..(n + 1) : Bracket(i)' =>
          tokens'[i].size = Cardinality(kids(i, n + 1)')
    <3>1. \A i \in 1..n : Bracket(i)' =>
            tokens'[i].size = Cardinality(kids(i, n + 1)')
      BY <1>6, <2>4
    <3> HIDE DEF kids
    <3> QED
      BY <2>5, <3>1
  <2> QED
    BY <1>1, <2>6 DEF SizesAreChildren
<1> QED
  BY <1>5, <1>7, <1>9, <1>10

\* A bracket is closed behind all tokens, and it is the only one that changes.
LEMMA CloseTree ==
  ASSUME JsmnTypeOK, TreeInv, NEW lexeme \in Closers, ParseLexeme(lexeme),
         NEW i \in OpenTokens, IsInnermost(i, OpenTokens), Closer(tokens[i].type) = lexeme,
         tokens' = [tokens EXCEPT ![i].end = Here]
  PROVE  /\ (StartsInText /\ EndsInText /\ Nested /\ SizesAreChildren)'
         /\ OpenTokens' = OpenTokens \ {i}
<1>1. PICK n \in Nat, m \in Nat :
        /\ n = Len(tokens) /\ n = Len(tokens') /\ Tokens = 1..n /\ Tokens' = 1..n
        /\ m = Len(text) /\ m + 1 = Len(text') /\ n <= m /\ i \in 1..n /\ m < MaxText
        /\ Here = m + 1
  <2>1. Len(text) < MaxText /\ Len(text) \in Nat /\ Len(text') = Len(text) + 1
    BY OneMoreLexeme DEF Lexemes
  <2>2. i \in 1..Len(tokens) /\ Here \in 0..MaxText
    BY <2>1, JsmnAssumption DEF OpenTokens, Here
  <2>3. Len(tokens) \in Nat /\ Len(tokens') = Len(tokens)
    BY <2>2, CloseFacts
  <2> QED
    BY <2>1, <2>2, <2>3 DEF Tokens, TreeInv, StartsInText, Here
<1>2. text'[m + 1] = lexeme /\ \A p \in 1..m : text'[p] = text[p]
  BY <1>1, OneMoreLexeme DEF Lexemes
<1>3. \A j \in 1..n :
        /\ tokens'[j].type = tokens[j].type
        /\ tokens'[j].start = tokens[j].start /\ tokens'[j].size = tokens[j].size
        /\ tokens'[j].end = IF j = i THEN m + 1 ELSE tokens[j].end
  <2>1. m + 1 \in 0..MaxText
    BY <1>1, JsmnAssumption
  <2> QED
    BY <1>1, <2>1, CloseFacts
<1>4. /\ \A j \in 1..n :
           /\ tokens[j].start \in Nat /\ tokens[j].end \in Nat /\ tokens[j].size \in Nat
           /\ j <= tokens[j].start /\ tokens[j].start <= m /\ tokens[j].size <= m
           /\ Open(j) => j <= i /\ Bracket(j)
      /\ Bracket(i) /\ Open(i)
  BY <1>1, TokenFields, OpenFacts DEF TreeInv, StartsInText, IsInnermost
<1>5. /\ \A j \in 1..n : Bracket(j)' <=> Bracket(j)
      /\ \A j \in 1..n : Open(j)' <=> Open(j) /\ j # i
  BY <1>1, <1>3 DEF Open, Bracket
<1>6. OpenTokens' = OpenTokens \ {i}
  BY <1>1, <1>5 DEF OpenTokens
<1>7. StartsInText'
  <2>1. \A j \in 1..n : /\ j <= tokens'[j].start /\ tokens'[j].start <= m + 1
                        /\ tokens'[j].size <= m + 1
    BY <1>3, <1>4
  <2>2. \A j, k \in 1..n : j < k => tokens'[j].start < tokens'[k].start
    BY <1>1, <1>3 DEF TreeInv, StartsInText
  <2>3. Len(tokens') <= Len(text')
    BY <1>1
  <2>4. \A j \in Tokens' :
          /\ j <= tokens'[j].start /\ tokens'[j].start <= Len(text')
          /\ tokens'[j].size <= Len(text')
    BY <1>1, <2>1
  <2>5. \A j, k \in Tokens' : j < k => tokens'[j].start < tokens'[k].start
    BY <1>1, <2>2
  <2> QED
    BY <2>3, <2>4, <2>5 DEF StartsInText
<1>8. EndsInText'
  <2>1. \A j \in 1..n : ~Bracket(j) =>
          tokens[j].end = tokens[j].start /\ text[tokens[j].start] \in Scalars
    BY <1>1 DEF TreeInv, EndsInText
  <2>2. \A j \in 1..n : Bracket(j) => text[tokens[j].start] = tokens[j].type
    BY <1>1 DEF TreeInv, EndsInText
  <2>3. \A j \in 1..n : Bracket(j) /\ ~Open(j) =>
          /\ tokens[j].start < tokens[j].end /\ tokens[j].end <= m
          /\ text[tokens[j].end] = Closer(tokens[j].type)
    BY <1>1 DEF TreeInv, EndsInText
  <2>4. \A j, k \in 1..n : j < k /\ Bracket(j) /\ Bracket(k) /\ ~Open(j) =>
          tokens[j].end # tokens[k].end
    BY <1>1 DEF TreeInv, EndsInText
  <2>5. \A j \in 1..n : ~Bracket(j)' =>
          tokens'[j].end = tokens'[j].start /\ text'[tokens'[j].start] \in Scalars
    BY <1>2, <1>3, <1>4, <1>5, <2>1
  <2>6. \A j \in 1..n : Bracket(j)' => text'[tokens'[j].start] = tokens'[j].type
    BY <1>2, <1>3, <1>4, <1>5, <2>2
  <2>7. \A j \in 1..n : Bracket(j)' /\ ~Open(j)' =>
          /\ tokens'[j].start < tokens'[j].end /\ tokens'[j].end <= m + 1
          /\ text'[tokens'[j].end] = Closer(tokens'[j].type)
    BY <1>2, <1>3, <1>4, <1>5, <2>3
  <2>8. \A j, k \in 1..n : j < k /\ Bracket(j)' /\ Bracket(k)' /\ ~Open(j)' =>
          tokens'[j].end # tokens'[k].end
    <3>1. \A j \in 1..n : Bracket(j) => tokens[j].end <= m
      BY <1>4, <2>3 DEF Open
    <3>2. ASSUME NEW j \in 1..n, NEW k \in 1..n, j < k,
                 Bracket(j)', Bracket(k)', ~Open(j)'
          PROVE  tokens'[j].end # tokens'[k].end
      <4>1. CASE i \notin {j, k}
        BY <1>3, <1>5, <2>4, <3>2, <4>1
      <4>2. CASE i \in {j, k}
        BY <1>3, <1>4, <1>5, <3>1, <3>2, <4>2
      <4> QED
        BY <4>1, <4>2
    <3> QED
      BY <3>2
  <2> QED
    BY <1>1, <2>5, <2>6, <2>7, <2>8 DEF EndsInText
<1>9. \A j, k \in 1..n : Encloses(j, k)' <=> Encloses(j, k)
  BY <1>1, <1>3, <1>4, <1>5 DEF Encloses
<1>10. Nested'
  <2>1. \A j, k \in 1..n : Encloses(j, k) =>
          Open(j) \/ (~Open(k) /\ tokens[k].end <= tokens[j].end)
    BY <1>1 DEF TreeInv, Nested
  <2>2. \A j \in 1..n : tokens[j].end <= m
    BY <1>1, <1>4 DEF TreeInv, EndsInText, Open
  <2>3. ASSUME NEW j \in 1..n, NEW k \in 1..n, Encloses(j, k)'
        PROVE  Open(j)' \/ (~Open(k)' /\ tokens'[k].end <= tokens'[j].end)
    <3>1. Encloses(j, k) /\ j < k
      BY <1>9, <2>3 DEF Encloses
    <3>2. CASE j = i
      BY <1>3, <1>4, <1>5, <2>2, <3>1, <3>2
    <3>3. CASE k = i
      BY <1>3, <1>4, <1>5, <2>1, <3>1, <3>3
    <3>4. CASE j # i /\ k # i
      BY <1>3, <1>5, <2>1, <3>1, <3>4
    <3> QED
      BY <3>2, <3>3, <3>4
  <2> QED
    BY <1>1, <2>3 DEF Nested
<1>11. SizesAreChildren'
  <2>1. \A j, k \in 1..n : Parent(j, k)' <=> Parent(j, k)
    BY <1>1, <1>9 DEF Parent
  <2>2. \A j \in 1..n : {k \in 1..n : Parent(j, k)'} = {k \in 1..n : Parent(j, k)}
    BY <2>1
  <2>3. \A j \in 1..n : Bracket(j) => tokens[j].size = Cardinality({k \in 1..n : Parent(j, k)})
    BY <1>1 DEF TreeInv, SizesAreChildren
  <2>4. \A j \in 1..n : Bracket(j)' =>
          tokens'[j].size = Cardinality({k \in 1..n : Parent(j, k)'})
    BY <1>3, <1>5, <2>2, <2>3
  <2> QED
    BY <1>1, <2>4 DEF SizesAreChildren
<1> QED
  BY <1>6, <1>7, <1>8, <1>10, <1>11

\* Nothing but the text changes when the parser returns.
LEMMA ReturnTree ==
  ASSUME JsmnTypeOK, TreeInv, UNCHANGED <<tokens, toksuper>>,
         \/ UNCHANGED text
         \/ \E lexeme \in Lexemes : ParseLexeme(lexeme)
  PROVE  TreeInv'
<1>1. /\ Len(text) \in Nat /\ Len(text) <= Len(text')
      /\ \A p \in 1..Len(text) : text'[p] = text[p]
      /\ Len(text') \in Nat
  <2>1. Len(text) \in Nat
    BY TokenFields
  <2>2. CASE UNCHANGED text
    BY <2>1, <2>2
  <2>3. ASSUME NEW lexeme \in Lexemes, ParseLexeme(lexeme)
        PROVE  Len(text') = Len(text) + 1 /\ \A p \in 1..Len(text) : text'[p] = text[p]
    BY <2>3, OneMoreLexeme
  <2> QED
    BY <2>1, <2>2, <2>3
<1>2. \A i \in Tokens :
        /\ tokens[i].start \in 1..Len(text) /\ tokens[i].size \in Nat
        /\ Bracket(i) /\ ~Open(i) => tokens[i].end \in 1..Len(text)
  BY <1>1, TokenFields DEF TreeInv, StartsInText, EndsInText, Tokens
<1>3. /\ Tokens' = Tokens /\ OpenTokens' = OpenTokens
      /\ \A i, j \in Tokens : Parent(i, j)' <=> Parent(i, j)
      /\ \A i, j \in Tokens : Encloses(i, j)' <=> Encloses(i, j)
      /\ \A i \in Tokens : (Bracket(i)' <=> Bracket(i)) /\ (Open(i)' <=> Open(i))
  BY DEF Tokens, OpenTokens, Parent, Encloses, Bracket, Open
<1>4. StartsInText'
  BY <1>1, <1>2, <1>3, TokenFields DEF TreeInv, StartsInText, Tokens
<1>5. EndsInText'
  BY <1>1, <1>2, <1>3 DEF TreeInv, EndsInText
<1>6. Nested'
  BY <1>3 DEF TreeInv, Nested
<1>7. SizesAreChildren'
  BY <1>3 DEF TreeInv, SizesAreChildren
<1>8. SuperIsInnermost'
  BY <1>3 DEF TreeInv, SuperIsInnermost, IsInnermost
<1> QED
  BY <1>4, <1>5, <1>6, <1>7, <1>8 DEF TreeInv

\* The three kinds of step: a token more, a bracket closed, or a return.
LEMMA JsmnCases ==
  ASSUME JsmnTypeOK, JsmnNext
  PROVE  \/ \E lexeme \in Openers : ParseLexeme(lexeme) /\ Opens(lexeme)
         \/ \E lexeme \in Scalars : ParseLexeme(lexeme) /\ Scalar(lexeme)
         \/ \E lexeme \in Closers : ParseLexeme(lexeme) /\ Closes(lexeme)
         \/ /\ UNCHANGED <<tokens, toksuper>>
            /\ UNCHANGED text \/ \E lexeme \in Lexemes : ParseLexeme(lexeme)
            /\ result = "none" /\ result' # "none"
<1>1. CASE EndOfText
  BY <1>1 DEF EndOfText, Returns
<1>2. ASSUME NEW lexeme \in Lexemes, ParseLexeme(lexeme)
      PROVE  \/ lexeme \in Openers /\ Opens(lexeme)
             \/ lexeme \in Scalars /\ Scalar(lexeme)
             \/ lexeme \in Closers /\ Closes(lexeme)
             \/ /\ UNCHANGED <<tokens, toksuper>>
                /\ result = "none" /\ result' # "none"
  BY <1>2 DEF ParseLexeme, Opens, Scalar, Closes, Unmatched, BadCharacter, CutString,
              NoMemory, Returns
<1> QED
  BY <1>1, <1>2 DEF JsmnNext

\* The token that a bracket or a scalar is given.
LEMMA NewToken ==
  ASSUME JsmnTypeOK, NEW lexeme \in Lexemes, ParseLexeme(lexeme)
  PROVE  /\ lexeme \in Openers => Token(lexeme, Here, 0) \in TokenSet
         /\ lexeme \in Scalars => Token("scalar", Here, Here) \in TokenSet
<1>1. Here \in 1..MaxText /\ 0 \in 0..MaxText /\ Here \in 0..MaxText
  <2>1. Len(text) \in Nat /\ Len(text) < MaxText
    BY OneMoreLexeme
  <2> QED
    BY <2>1, JsmnAssumption DEF Here
<1> QED
  BY <1>1 DEF Token, TokenSet

LEMMA TreeStep ==
  ASSUME JsmnTypeOK, TreeInv, JsmnNext
  PROVE  TreeInv'
<1>1. Len(tokens) \in Nat /\ toksuper \in 0..Len(tokens) /\ OpenTokens \subseteq 1..Len(tokens)
  BY TokenFields DEF OpenTokens
<1>2. ASSUME NEW lexeme \in Openers, ParseLexeme(lexeme), Opens(lexeme)
      PROVE  TreeInv'
  <2> DEFINE token == Token(lexeme, Here, 0)
  <2>1. /\ token.start = Here /\ token.end = 0 /\ token.size = 0 /\ token.type = lexeme
        /\ Alloc(token) /\ toksuper' = Len(tokens) + 1 /\ lexeme \in Lexemes
    BY <1>2 DEF Token, Opens, Lexemes
  <2>2. token \in TokenSet
    BY <1>2, <2>1, NewToken
  <2> HIDE DEF token
  <2>3. (StartsInText /\ EndsInText /\ Nested /\ SizesAreChildren)'
    BY <1>2, <2>1, <2>2, AllocTree
  <2>4. Len(text) < MaxText
    BY <1>2, <2>1, OneMoreLexeme
  <2>5. /\ Len(tokens') = Len(tokens) + 1 /\ tokens'[Len(tokens) + 1].end = 0
    BY <1>2, <2>1, <2>2, TokenAppended
  <2>6. OpenTokens' \subseteq 1..(Len(tokens) + 1) /\ Len(tokens) + 1 \in OpenTokens'
    BY <1>1, <2>5 DEF OpenTokens, Open
  <2>7. SuperIsInnermost'
    BY <1>1, <2>1, <2>6 DEF SuperIsInnermost, IsInnermost
  <2> QED
    BY <2>3, <2>7 DEF TreeInv
<1>3. ASSUME NEW lexeme \in Scalars, ParseLexeme(lexeme), Scalar(lexeme)
      PROVE  TreeInv'
  <2> DEFINE token == Token("scalar", Here, Here)
  <2>1. /\ token.start = Here /\ token.end = Here /\ token.size = 0 /\ token.type = "scalar"
        /\ Alloc(token) /\ toksuper' = toksuper /\ lexeme \in Lexemes
    BY <1>3 DEF Token, Scalar, Lexemes
  <2>2. token \in TokenSet
    BY <1>3, <2>1, NewToken
  <2> HIDE DEF token
  <2>3. (StartsInText /\ EndsInText /\ Nested /\ SizesAreChildren)'
    BY <1>3, <2>1, <2>2, AllocTree
  <2>4. Len(text) < MaxText /\ Here # 0
    BY <1>3, <2>1, OneMoreLexeme DEF Here
  <2>5. /\ Len(tokens') = Len(tokens) + 1 /\ tokens'[Len(tokens) + 1].end # 0
        /\ \A i \in 1..Len(tokens) : tokens'[i].end = tokens[i].end
    <3>1. /\ Len(tokens') = Len(tokens) + 1 /\ tokens'[Len(tokens) + 1] = token
          /\ \A i \in 1..Len(tokens) : tokens'[i].end = tokens[i].end
      BY <1>3, <2>1, <2>2, TokenAppended
    <3> QED
      BY <2>1, <2>4, <3>1
  <2>6. OpenTokens' = OpenTokens
    BY <1>1, <2>5 DEF OpenTokens, Open
  <2>7. SuperIsInnermost'
    BY <2>1, <2>6 DEF SuperIsInnermost, IsInnermost, TreeInv
  <2> QED
    BY <2>3, <2>7 DEF TreeInv
<1>4. ASSUME NEW lexeme \in Closers, ParseLexeme(lexeme), Closes(lexeme)
      PROVE  TreeInv'
  <2>1. PICK i \in OpenTokens :
          /\ IsInnermost(i, OpenTokens) /\ Closer(tokens[i].type) = lexeme
          /\ tokens' = [tokens EXCEPT ![i].end = Here]
          /\ IF OpenTokens = {i}
               THEN toksuper' = 0
               ELSE \E j \in OpenTokens \ {i} :
                      IsInnermost(j, OpenTokens \ {i}) /\ toksuper' = j
    BY <1>4 DEF Closes
  <2>2. /\ (StartsInText /\ EndsInText /\ Nested /\ SizesAreChildren)'
        /\ OpenTokens' = OpenTokens \ {i}
    BY <1>4, <2>1, CloseTree
  <2>3. SuperIsInnermost'
    BY <2>1, <2>2 DEF SuperIsInnermost
  <2> QED
    BY <2>2, <2>3 DEF TreeInv
<1> QED
  BY <1>2, <1>3, <1>4, JsmnCases, ReturnTree

LEMMA JsmnTypeStep ==
  ASSUME JsmnTypeOK, TreeInv, JsmnNext
  PROVE  JsmnTypeOK'
<1>1. /\ Len(tokens) \in Nat /\ Len(tokens) <= NumTokens /\ toksuper \in 0..Len(tokens)
      /\ tokens \in Seq(TokenSet) /\ MaxText \in Nat
  BY TokenFields, JsmnAssumption DEF JsmnTypeOK, TokenSet
<1>2. result' \in {"none", "SUCCESS", "PART", "INVAL", "NOMEM"}
  BY DEF JsmnTypeOK, JsmnNext, EndOfText, ParseLexeme, Opens, Closes, Unmatched, Scalar,
         BadCharacter, CutString, NoMemory, Returns
<1>3. text' \in Seq(Lexemes) /\ Len(text') <= MaxText
  <2>1. ASSUME NEW lexeme \in Lexemes, ParseLexeme(lexeme)
        PROVE  text' \in Seq(Lexemes) /\ Len(text') <= MaxText
    <3>1. /\ Len(text) \in Nat /\ Len(text) < MaxText
          /\ text' \in Seq(Lexemes) /\ Len(text') = Len(text) + 1
      BY <2>1, OneMoreLexeme
    <3> QED
      BY <1>1, <3>1
  <2>2. CASE EndOfText
    BY <2>2 DEF EndOfText, JsmnTypeOK
  <2> QED
    BY <2>1, <2>2 DEF JsmnNext
<1>4. /\ tokens' \in Seq(TokenSet) /\ Len(tokens') <= NumTokens
      /\ Len(tokens') \in Nat /\ toksuper' \in 0..Len(tokens')
  <2>1. ASSUME NEW lexeme \in Lexemes, ParseLexeme(lexeme), NEW token \in TokenSet, Alloc(token)
        PROVE  /\ tokens' \in Seq(TokenSet) /\ Len(tokens') <= NumTokens
               /\ Len(tokens') = Len(tokens) + 1
    <3>1. /\ tokens' \in Seq(TokenSet) /\ Len(tokens) < NumTokens /\ Len(tokens) \in Nat
          /\ Len(tokens') = Len(tokens) + 1
      BY <2>1, TokenAppended
    <3> QED
      BY <3>1, JsmnAssumption
  <2> DEFINE Fine == /\ tokens' \in Seq(TokenSet) /\ Len(tokens') <= NumTokens
                     /\ Len(tokens') \in Nat /\ toksuper' \in 0..Len(tokens')
  <2>2. ASSUME NEW lexeme \in Openers, ParseLexeme(lexeme), Opens(lexeme)
        PROVE  Fine
    <3>1. lexeme \in Lexemes /\ Token(lexeme, Here, 0) \in TokenSet
      BY <2>2, NewToken DEF Lexemes
    <3> QED
      BY <1>1, <2>1, <2>2, <3>1 DEF Opens
  <2>3. ASSUME NEW lexeme \in Scalars, ParseLexeme(lexeme), Scalar(lexeme)
        PROVE  Fine
    <3>1. lexeme \in Lexemes /\ Token("scalar", Here, Here) \in TokenSet
      BY <2>3, NewToken DEF Lexemes
    <3> QED
      BY <1>1, <2>1, <2>3, <3>1 DEF Scalar
  <2>4. ASSUME NEW lexeme \in Closers, ParseLexeme(lexeme), Closes(lexeme)
        PROVE  Fine
    <3>1. OpenTokens \subseteq 1..Len(tokens) /\ lexeme \in Lexemes
      BY DEF OpenTokens, Lexemes
    <3>2. Here \in 0..MaxText
      <4>1. Len(text) \in Nat /\ Len(text) < MaxText
        BY <2>4, <3>1, OneMoreLexeme
      <4> QED
        BY <1>1, <4>1 DEF Here
    <3>3. tokens' \in Seq(TokenSet) /\ Len(tokens') = Len(tokens)
      BY <2>4, <3>1, <3>2, CloseFacts DEF Closes
    <3>4. toksuper' = 0 \/ toksuper' \in OpenTokens
      BY <2>4 DEF Closes
    <3>5. toksuper' \in 0..Len(tokens)
      <4>1. Len(tokens) \in Nat
        BY <1>1
      <4>2. CASE toksuper' = 0
        BY <4>1, <4>2
      <4>3. CASE toksuper' \in OpenTokens
        BY <4>1, <4>3, <3>1
      <4> QED
        BY <3>4, <4>2, <4>3
    <3> QED
      BY <1>1, <3>3, <3>5
  <2> QED
    BY <1>1, <2>2, <2>3, <2>4, JsmnCases
<1> QED
  BY <1>2, <1>3, <1>4 DEF JsmnTypeOK, TokenSet

-----------------------------------------------------------------------------
\* While the parser runs, every lexeme has its token.
LEMMA EveryLexemeStep ==
  ASSUME JsmnTypeOK, TreeInv, EveryLexeme, JsmnNext, result' = "none"
  PROVE  EveryLexeme'
<1>1. ASSUME NEW lexeme \in Lexemes, ParseLexeme(lexeme), NEW token \in TokenSet, Alloc(token),
             token.start = Here, lexeme \in Openers \cup Scalars
      PROVE  EveryLexeme'
  <2>1. PICK n \in Nat, m \in Nat :
          /\ n = Len(tokens) /\ m = Len(text) /\ m < MaxText
          /\ Len(text') = m + 1 /\ text'[m + 1] = lexeme
          /\ \A p \in 1..m : text'[p] = text[p]
    BY <1>1, OneMoreLexeme, TokenFields
  <2>2. /\ Len(tokens') = n + 1 /\ tokens'[n + 1].start = m + 1
        /\ \A i \in 1..n : /\ tokens'[i].type = tokens[i].type
                           /\ tokens'[i].start = tokens[i].start
                           /\ tokens'[i].end = tokens[i].end
    BY <1>1, <2>1, TokenAppended DEF Here
  <2>3. /\ Tokens = 1..n /\ Tokens' = 1..(n + 1)
        /\ \A i \in 1..n : Bracket(i)' <=> Bracket(i)
    BY <2>1, <2>2 DEF Tokens, Bracket
  <2>4. ASSUME NEW p \in 1..m
        PROVE  /\ text'[p] \in Openers \cup Scalars => \E i \in 1..n : tokens[i].start = p
               /\ text'[p] \in Closers => \E i \in 1..n : Bracket(i) /\ tokens[i].end = p
               /\ text'[p] \notin {"bad", "cut"}
    BY <2>1, <2>3 DEF EveryLexeme
  <2>5. lexeme \notin Closers \cup {"bad", "cut"}
    BY <1>1, Kinds
  <2>6. ASSUME NEW p \in 1..(m + 1)
        PROVE  /\ text'[p] \in Openers \cup Scalars =>
                    \E i \in 1..(n + 1) : tokens'[i].start = p
               /\ text'[p] \in Closers => \E i \in 1..(n + 1) : Bracket(i)' /\ tokens'[i].end = p
               /\ text'[p] \notin {"bad", "cut"}
    <3>1. CASE p \in 1..m
      BY <2>2, <2>3, <2>4, <3>1
    <3>2. CASE p = m + 1
      BY <2>1, <2>2, <2>5, <3>2
    <3> QED
      BY <2>1, <3>1, <3>2
  <2> QED
    BY <2>1, <2>3, <2>6 DEF EveryLexeme
<1>2. ASSUME NEW lexeme \in Openers, ParseLexeme(lexeme), Opens(lexeme)
      PROVE  EveryLexeme'
  <2>1. Token(lexeme, Here, 0) \in TokenSet /\ lexeme \in Lexemes
    BY <1>2, NewToken DEF Lexemes
  <2> QED
    BY <1>1, <1>2, <2>1 DEF Opens, Token
<1>3. ASSUME NEW lexeme \in Scalars, ParseLexeme(lexeme), Scalar(lexeme)
      PROVE  EveryLexeme'
  <2>1. Token("scalar", Here, Here) \in TokenSet /\ lexeme \in Lexemes
    BY <1>3, NewToken DEF Lexemes
  <2> QED
    BY <1>1, <1>3, <2>1 DEF Scalar, Token
<1>4. ASSUME NEW lexeme \in Closers, ParseLexeme(lexeme), Closes(lexeme)
      PROVE  EveryLexeme'
  <2>1. PICK n \in Nat, m \in Nat :
          /\ n = Len(tokens) /\ m = Len(text) /\ m + 1 \in 0..MaxText
          /\ Len(text') = m + 1 /\ text'[m + 1] = lexeme
          /\ \A p \in 1..m : text'[p] = text[p]
    <3>1. /\ Len(text) \in Nat /\ Len(text) < MaxText
          /\ Len(text') = Len(text) + 1 /\ text'[Len(text) + 1] = lexeme
          /\ \A p \in 1..Len(text) : text'[p] = text[p]
      BY <1>4, OneMoreLexeme DEF Lexemes
    <3>2. Len(text) + 1 \in 0..MaxText
      BY <3>1, JsmnAssumption
    <3> QED
      BY <3>1, <3>2, TokenFields
  <2>2. PICK i \in OpenTokens : tokens' = [tokens EXCEPT ![i].end = m + 1]
    BY <1>4, <2>1 DEF Closes, Here
  <2>3. i \in 1..n /\ Bracket(i) /\ Open(i) /\ Tokens = 1..n
    BY <2>1, <2>2, OpenFacts DEF Tokens
  <2>4. /\ Len(tokens') = n
        /\ \A j \in 1..n : /\ tokens'[j].type = tokens[j].type
                           /\ tokens'[j].start = tokens[j].start
                           /\ tokens'[j].end = IF j = i THEN m + 1 ELSE tokens[j].end
    BY <2>1, <2>2, <2>3, CloseFacts
  <2>5. Tokens' = 1..n /\ \A j \in 1..n : Bracket(j)' <=> Bracket(j)
    BY <2>1, <2>4 DEF Tokens, Bracket
  <2>6. ASSUME NEW p \in 1..m
        PROVE  /\ text'[p] \in Openers \cup Scalars => \E j \in 1..n : tokens[j].start = p
               /\ text'[p] \in Closers => \E j \in 1..n : j # i /\ Bracket(j) /\ tokens[j].end = p
               /\ text'[p] \notin {"bad", "cut"}
    BY <2>1, <2>3 DEF EveryLexeme, Open
  <2>7. lexeme \notin Openers \cup Scalars \cup {"bad", "cut"}
    BY Kinds
  <2>8. ASSUME NEW p \in 1..(m + 1)
        PROVE  /\ text'[p] \in Openers \cup Scalars => \E j \in 1..n : tokens'[j].start = p
               /\ text'[p] \in Closers => \E j \in 1..n : Bracket(j)' /\ tokens'[j].end = p
               /\ text'[p] \notin {"bad", "cut"}
    <3>1. CASE p \in 1..m
      BY <2>4, <2>5, <2>6, <3>1
    <3>2. CASE p = m + 1
      BY <2>1, <2>3, <2>4, <2>5, <2>7, <3>2
    <3> QED
      BY <2>1, <3>1, <3>2
  <2> QED
    BY <2>1, <2>5, <2>8 DEF EveryLexeme
<1> QED
  BY <1>2, <1>3, <1>4, JsmnCases

\* The open brackets stay in a sequence: the next one goes to its end, and the one
\* that is closed is its last.
LEMMA OpenInOrderStep ==
  ASSUME JsmnTypeOK, TreeInv, OpenInOrder, JsmnNext, result' = "none"
  PROVE  OpenInOrder'
<1>1. PICK k \in 0..Len(tokens) : \E s \in [1..k -> OpenTokens] : Lists(s, k, OpenTokens)
  BY DEF OpenInOrder
<1> PICK s \in [1..k -> OpenTokens] : Lists(s, k, OpenTokens)
  BY <1>1
<1>2. PICK n \in Nat :
        n = Len(tokens) /\ OpenTokens \subseteq 1..n /\ k \in 0..n /\ k \in Nat
  BY <1>1, TokenFields DEF OpenTokens
<1>3. /\ \A a, b \in 1..k : a < b => s[a] < s[b]
      /\ \A i \in OpenTokens : \E a \in 1..k : s[a] = i
      /\ \A a \in 1..k : s[a] \in OpenTokens
  BY DEF Lists, Ascending
<1>4. ASSUME NEW lexeme \in Openers, ParseLexeme(lexeme), Opens(lexeme)
      PROVE  OpenInOrder'
  <2>1. /\ Token(lexeme, Here, 0) \in TokenSet /\ lexeme \in Lexemes
        /\ Alloc(Token(lexeme, Here, 0)) /\ Token(lexeme, Here, 0).end = 0
    BY <1>4, NewToken DEF Lexemes, Opens, Token
  <2>2. Len(text) < MaxText
    BY <1>4, <2>1, OneMoreLexeme
  <2>3. /\ Len(tokens') = n + 1 /\ tokens'[n + 1].end = 0
        /\ \A i \in 1..n : tokens'[i].end = tokens[i].end
    BY <1>2, <1>4, <2>1, TokenAppended
  <2>4. OpenTokens' = OpenTokens \cup {n + 1}
    BY <1>2, <2>3 DEF OpenTokens, Open
  <2> DEFINE t == [a \in 1..(k + 1) |-> IF a = k + 1 THEN n + 1 ELSE s[a]]
  <2>5. \A a \in 1..(k + 1) : t[a] = IF a = k + 1 THEN n + 1 ELSE s[a]
    OBVIOUS
  <2>6. t \in [1..(k + 1) -> OpenTokens']
    BY <1>2, <1>3, <2>4
  <2> HIDE DEF t
  <2>7. ASSUME NEW a \in 1..(k + 1), NEW b \in 1..(k + 1), a < b
        PROVE  t[a] < t[b]
    <3>1. a \in 1..k /\ s[a] \in 1..n /\ t[a] = s[a]
      <4>1. a \in 1..k /\ a # k + 1
        BY <1>2, <2>7
      <4> QED
        BY <1>2, <1>3, <2>5, <4>1
    <3>2. CASE b = k + 1
      BY <1>2, <2>5, <3>1, <3>2
    <3>3. CASE b # k + 1
      BY <1>2, <1>3, <2>5, <2>7, <3>1, <3>3
    <3> QED
      BY <3>2, <3>3
  <2>8. \A i \in OpenTokens' : \E a \in 1..(k + 1) : t[a] = i
    <3>1. t[k + 1] = n + 1 /\ k + 1 \in 1..(k + 1)
      BY <1>2, <2>5
    <3>2. \A a \in 1..k : a \in 1..(k + 1) /\ t[a] = s[a]
      BY <1>2, <2>5
    <3> QED
      BY <1>3, <2>4, <3>1, <3>2
  <2>9. k + 1 \in 0..Len(tokens')
    BY <1>2, <2>3
  <2> QED
    BY <2>6, <2>7, <2>8, <2>9 DEF OpenInOrder, Lists, Ascending
<1>5. ASSUME NEW lexeme \in Scalars, ParseLexeme(lexeme), Scalar(lexeme)
      PROVE  OpenInOrder'
  <2> DEFINE token == Token("scalar", Here, Here)
  <2>1. token \in TokenSet /\ lexeme \in Lexemes /\ Alloc(token) /\ token.end = Here
    BY <1>5, NewToken DEF Lexemes, Scalar, Token
  <2> HIDE DEF token
  <2>2. Len(text) < MaxText /\ Here # 0 /\ StartsInText
    BY <1>5, <2>1, OneMoreLexeme DEF Here, TreeInv
  <2>3. /\ Len(tokens') = n + 1 /\ tokens'[n + 1].end # 0
        /\ \A i \in 1..n : tokens'[i].end = tokens[i].end
    <3>1. /\ Len(tokens') = n + 1 /\ tokens'[n + 1] = token
          /\ \A i \in 1..n : tokens'[i].end = tokens[i].end
      BY <1>2, <1>5, <2>1, TokenAppended
    <3> QED
      BY <2>1, <2>2, <3>1
  <2>4. OpenTokens' = OpenTokens
    BY <1>2, <2>3 DEF OpenTokens, Open
  <2>5. k \in 0..Len(tokens')
    BY <1>2, <2>3
  <2> QED
    BY <1>1, <2>4, <2>5 DEF OpenInOrder
<1>6. ASSUME NEW lexeme \in Closers, ParseLexeme(lexeme), Closes(lexeme)
      PROVE  OpenInOrder'
  <2>1. PICK i \in OpenTokens :
          /\ IsInnermost(i, OpenTokens) /\ Closer(tokens[i].type) = lexeme
          /\ tokens' = [tokens EXCEPT ![i].end = Here]
    BY <1>6 DEF Closes
  <2>2. OpenTokens' = OpenTokens \ {i}
    BY <1>6, <2>1, CloseTree
  <2>3. Len(tokens') = n
    <3>1. Here \in 0..MaxText /\ i \in 1..n
      <4>1. Len(text) \in Nat /\ Len(text) < MaxText
        BY <1>6, OneMoreLexeme DEF Lexemes
      <4> QED
        BY <1>2, <2>1, <4>1, JsmnAssumption DEF Here
    <3> QED
      BY <1>2, <2>1, <3>1, CloseFacts
  <2>4. k # 0 /\ s[k] = i
    <3>1. PICK a \in 1..k : s[a] = i
      BY <1>3
    <3>2. s[k] \in OpenTokens /\ s[k] <= i
      BY <1>2, <1>3, <2>1, <3>1 DEF IsInnermost
    <3>3. a = k
      <4>1. a < k => s[a] < s[k]
        BY <1>2, <1>3, <3>1
      <4>2. s[a] \in Nat /\ s[k] \in Nat
        BY <1>2, <2>1, <3>1, <3>2
      <4> QED
        BY <1>2, <3>1, <3>2, <4>1, <4>2
    <3> QED
      BY <3>1, <3>3
  <2> DEFINE t == [a \in 1..(k - 1) |-> s[a]]
  <2>5. \A a \in 1..(k - 1) : t[a] = s[a] /\ a \in 1..k /\ s[a] < i
    BY <1>2, <1>3, <2>4
  <2>6. t \in [1..(k - 1) -> OpenTokens']
    <3>1. \A a \in 1..(k - 1) : s[a] \in OpenTokens'
      BY <1>2, <1>3, <2>2, <2>5
    <3> QED
      BY <3>1
  <2> HIDE DEF t
  <2>7. \A a, b \in 1..(k - 1) : a < b => t[a] < t[b]
    BY <1>3, <2>5
  <2>8. \A j \in OpenTokens' : \E a \in 1..(k - 1) : t[a] = j
    <3>1. ASSUME NEW j \in OpenTokens'
          PROVE  \E a \in 1..(k - 1) : t[a] = j
      <4>1. PICK a \in 1..k : s[a] = j
        BY <1>3, <2>2
      <4>2. a \in 1..(k - 1)
        BY <1>2, <2>2, <2>4, <4>1
      <4> QED
        BY <2>5, <4>1, <4>2
    <3> QED
      BY <3>1
  <2>9. k - 1 \in 0..Len(tokens')
    BY <1>2, <2>3, <2>4
  <2> QED
    BY <2>6, <2>7, <2>8, <2>9 DEF OpenInOrder, Lists, Ascending
<1> QED
  BY <1>4, <1>5, <1>6, JsmnCases

-----------------------------------------------------------------------------
\* The bracket that a closer matches, in any text that goes on like this one.
LEMMA FiniteAt ==
  ASSUME NEW u \in Seq(Lexemes), NEW S
  PROVE  /\ IsFiniteSet(At(u, S)) /\ At(u, S) \subseteq 1..Len(u)
         /\ \A p \in At(u, S) : p \in Nat /\ 1 <= p /\ p <= Len(u) /\ u[p] \in S
<1>1. Len(u) \in Nat /\ IsFiniteSet(1..Len(u))
  BY FS_Interval
<1>2. At(u, S) \in SUBSET (1..Len(u))
  BY DEF At
<1>3. \A p \in At(u, S) : p \in Nat /\ 1 <= p /\ p <= Len(u) /\ u[p] \in S
  BY <1>1 DEF At
<1> QED
  BY <1>1, <1>2, <1>3, FS_Subset

\* As many openers as closers: every closer is matched.
LEMMA MatchIsOnto ==
  ASSUME NEW u \in Seq(Lexemes), NEW match, IsMatch(u, match), NEW c \in At(u, Closers)
  PROVE  \E p \in At(u, Openers) : match[p] = c
<1> DEFINE A == At(u, Openers)
           B == At(u, Closers)
<1>1. IsFiniteSet(A) /\ IsFiniteSet(B) /\ A \subseteq Nat
  BY FiniteAt
<1>2. /\ match \in [A -> B] /\ Cardinality(A) = Cardinality(B)
      /\ \A i, j \in A : i < j => match[i] # match[j]
  BY DEF IsMatch, Matches
<1>3. c \in B
  OBVIOUS
<1> HIDE DEF A, B
<1>4. \A i, j \in A : match[i] = match[j] => i = j
  BY <1>1, <1>2
<1>5. match \in Injection(A, B)
  BY <1>2, <1>4 DEF Injection, IsInjective
<1>6. match \in Surjection(A, B)
  BY <1>1, <1>2, <1>5, FS_Injection
<1> QED
  BY <1>3, <1>6 DEF Surjection, A

\* A token of a bracket stands at an opener of any text that goes on like this one.
LEMMA BracketIsOpener ==
  ASSUME JsmnTypeOK, TreeInv, NEW u \in Seq(Lexemes), Extends(u, text),
         NEW i \in Tokens
  PROVE  /\ tokens[i].start \in 1..Len(text)
         /\ Bracket(i) <=> tokens[i].start \in At(u, Openers)
         /\ u[tokens[i].start] = text[tokens[i].start]
         /\ Bracket(i) => text[tokens[i].start] = tokens[i].type
<1>1. tokens[i].start \in 1..Len(text) /\ Len(text) \in Nat /\ Len(text) <= Len(u)
  BY TokenFields DEF TreeInv, StartsInText, Tokens, Extends
<1>2. u[tokens[i].start] = text[tokens[i].start] /\ tokens[i].start \in 1..Len(u)
  BY <1>1 DEF Extends
<1>3. Bracket(i) => text[tokens[i].start] = tokens[i].type
  BY DEF TreeInv, EndsInText
<1>4. Bracket(i) <=> text[tokens[i].start] \in Openers
  BY <1>3, Kinds DEF TreeInv, EndsInText, Bracket
<1> QED
  BY <1>1, <1>2, <1>3, <1>4 DEF At

\* The next lexeme is a closer in a text whose brackets match: it closes the
\* innermost open bracket.
LEMMA NextCloser ==
  ASSUME JsmnTypeOK, TreeInv, EveryLexeme, MatchedAsParsed,
         NEW u \in Seq(Lexemes), Extends(u, text), NEW match, IsMatch(u, match),
         NEW h, h = Len(text) + 1, h <= Len(u), u[h] \in Closers
  PROVE  /\ OpenTokens # {}
         /\ match[tokens[toksuper].start] = h
<1>1. /\ h \in Nat /\ h \in At(u, Closers) /\ Len(text) \in Nat /\ Len(u) \in Nat
      /\ \A p \in 1..Len(text) : u[p] = text[p]
  BY TokenFields DEF At, Extends
<1>2. /\ \A p \in At(u, Openers) : match[p] \in At(u, Closers) /\ p < match[p]
      /\ \A p, q \in At(u, Openers) : p < q =>
           match[p] # match[q] /\ (q < match[p] => match[q] < match[p])
  BY DEF IsMatch, Matches
<1>3. PICK p \in At(u, Openers) : match[p] = h
  BY <1>1, MatchIsOnto
<1>4. p \in 1..Len(text) /\ text[p] \in Openers
  <2>1. p < h /\ p \in Nat /\ 1 <= p /\ u[p] \in Openers
    BY <1>2, <1>3, FiniteAt
  <2>2. p \in 1..Len(text)
    BY <1>1, <2>1
  <2> QED
    BY <1>1, <2>1, <2>2
<1>5. PICK k \in Tokens : tokens[k].start = p
  BY <1>4 DEF EveryLexeme
<1>6. \A j \in Tokens : Bracket(j) /\ ~Open(j) =>
        match[tokens[j].start] = tokens[j].end /\ tokens[j].end < h
  <2>1. \A j \in Tokens : Bracket(j) /\ ~Open(j) => tokens[j].end <= Len(text)
    BY DEF TreeInv, EndsInText
  <2> QED
    BY <1>1, <2>1, TokenFields DEF MatchedAsParsed
<1>7. Bracket(k)
  BY <1>3, <1>5, BracketIsOpener
<1>8. Open(k)
  BY <1>1, <1>3, <1>5, <1>6, <1>7
<1>9. /\ k \in OpenTokens /\ OpenTokens # {} /\ k <= toksuper
      /\ toksuper \in Tokens /\ Bracket(toksuper) /\ Open(toksuper)
  BY <1>8, OpenFacts
<1>10. ASSUME k # toksuper
       PROVE  FALSE
  <2> DEFINE q == tokens[toksuper].start
  <2>1. p < q /\ q < h
    <3>1. k < toksuper /\ k \in Nat /\ toksuper \in Nat
      BY <1>9, <1>10, TokenFields DEF Tokens
    <3>2. p < q
      BY <1>5, <1>9, <3>1 DEF TreeInv, StartsInText
    <3>3. q \in 1..Len(text)
      BY <1>9, BracketIsOpener
    <3> QED
      BY <1>1, <3>2, <3>3
  <2>2. q \in At(u, Openers)
    BY <1>9, BracketIsOpener
  <2> HIDE DEF q
  <2> DEFINE c == match[q]
  <2>3. c < h /\ c \in At(u, Closers)
    BY <1>2, <1>3, <2>1, <2>2
  <2> HIDE DEF c
  <2>4. c \in 1..Len(text) /\ text[c] \in Closers
    <3>1. c \in Nat /\ 1 <= c /\ u[c] \in Closers
      BY <2>3, FiniteAt
    <3>2. c \in 1..Len(text)
      BY <1>1, <2>3, <3>1
    <3> QED
      BY <1>1, <3>1, <3>2
  <2>5. PICK j \in Tokens : Bracket(j) /\ tokens[j].end = c
    BY <2>4 DEF EveryLexeme
  <2>6. ~Open(j)
    BY <2>4, <2>5 DEF Open
  <2>7. match[tokens[j].start] = match[q] /\ tokens[j].start \in At(u, Openers)
    BY <1>6, <2>5, <2>6, BracketIsOpener DEF c
  <2>8. tokens[j].start = q
    <3>1. tokens[j].start \in Nat /\ q \in Nat
      BY <2>2, <2>7, FiniteAt
    <3> QED
      BY <1>2, <2>2, <2>7, <3>1
  <2>9. j = toksuper
    <3>1. j \in Nat /\ toksuper \in Nat
      BY <1>9, TokenFields DEF Tokens
    <3>2. \A x, y \in Tokens : x < y => tokens[x].start < tokens[y].start
      BY DEF TreeInv, StartsInText
    <3>3. tokens[j].start = tokens[toksuper].start /\ tokens[j].start \in Nat
      BY <2>8, TokenFields DEF q
    <3> QED
      BY <1>9, <3>1, <3>2, <3>3
  <2> QED
    BY <1>9, <2>6, <2>9
<1> QED
  BY <1>3, <1>5, <1>9, <1>10

LEMMA ExtendsEarlier ==
  ASSUME JsmnTypeOK, NEW lexeme \in Lexemes, ParseLexeme(lexeme),
         NEW u \in Seq(Lexemes), Extends(u, text'), NEW h, h = Len(text) + 1
  PROVE  Extends(u, text) /\ h <= Len(u) /\ u[h] = lexeme
<1>1. /\ Len(text) \in Nat /\ Len(text') = h /\ text'[h] = lexeme
      /\ \A p \in 1..Len(text) : text'[p] = text[p]
  BY OneMoreLexeme
<1>2. h <= Len(u) /\ \A p \in 1..h : u[p] = text'[p]
  BY <1>1 DEF Extends
<1>3. h \in 1..h /\ \A p \in 1..Len(text) : p \in 1..h
  BY <1>1
<1> QED
  BY <1>1, <1>2, <1>3 DEF Extends

\* A bracket that is closed is matched by what closes it, in whatever text this is
\* the beginning of.
LEMMA MatchedStep ==
  ASSUME JsmnTypeOK, TreeInv, EveryLexeme, MatchedAsParsed, JsmnNext, result' = "none"
  PROVE  MatchedAsParsed'
<1>1. ASSUME NEW lexeme \in Lexemes, ParseLexeme(lexeme), NEW token \in TokenSet, Alloc(token),
             token.type \notin Openers \/ token.end = 0
      PROVE  MatchedAsParsed'
  <2>1. Len(text) < MaxText
    BY <1>1, OneMoreLexeme
  <2>2. PICK n \in Nat : n = Len(tokens)
    BY TokenFields
  <2>3. /\ Len(tokens') = n + 1 /\ tokens'[n + 1] = token
        /\ \A i \in 1..n : /\ tokens'[i].type = tokens[i].type
                           /\ tokens'[i].start = tokens[i].start
                           /\ tokens'[i].end = tokens[i].end
    BY <1>1, <2>1, <2>2, TokenAppended
  <2>4. /\ Tokens = 1..n /\ Tokens' = 1..(n + 1)
        /\ \A i \in 1..n : (Bracket(i)' <=> Bracket(i)) /\ (Open(i)' <=> Open(i))
        /\ ~Bracket(n + 1)' \/ Open(n + 1)'
    BY <1>1, <2>2, <2>3 DEF Tokens, Bracket, Open
  <2>5. ASSUME NEW u \in Seq(Lexemes), NEW match, Extends(u, text'), IsMatch(u, match),
               NEW i \in 1..(n + 1), Bracket(i)', ~Open(i)'
        PROVE  match[tokens'[i].start] = tokens'[i].end
    <3>1. i \in 1..n
      BY <2>2, <2>4, <2>5
    <3>2. Extends(u, text)
      BY <1>1, <2>5, ExtendsEarlier
    <3>3. match[tokens[i].start] = tokens[i].end
      BY <2>4, <2>5, <3>1, <3>2 DEF MatchedAsParsed
    <3> QED
      BY <2>3, <3>1, <3>3
  <2> QED
    BY <2>4, <2>5 DEF MatchedAsParsed
<1>2. ASSUME NEW lexeme \in Openers, ParseLexeme(lexeme), Opens(lexeme)
      PROVE  MatchedAsParsed'
  <2>1. /\ Token(lexeme, Here, 0) \in TokenSet /\ lexeme \in Lexemes
        /\ Alloc(Token(lexeme, Here, 0)) /\ Token(lexeme, Here, 0).end = 0
    BY <1>2, NewToken DEF Lexemes, Opens, Token
  <2> QED
    BY <1>1, <1>2, <2>1
<1>3. ASSUME NEW lexeme \in Scalars, ParseLexeme(lexeme), Scalar(lexeme)
      PROVE  MatchedAsParsed'
  <2>1. /\ Token("scalar", Here, Here) \in TokenSet /\ lexeme \in Lexemes
        /\ Alloc(Token("scalar", Here, Here)) /\ Token("scalar", Here, Here).type \notin Openers
    BY <1>3, NewToken, Kinds DEF Lexemes, Scalar, Token
  <2> QED
    BY <1>1, <1>3, <2>1
<1>4. ASSUME NEW lexeme \in Closers, ParseLexeme(lexeme), Closes(lexeme)
      PROVE  MatchedAsParsed'
  <2>1. PICK n \in Nat, h \in Nat :
          n = Len(tokens) /\ h = Len(text) + 1 /\ h \in 0..MaxText /\ lexeme \in Lexemes
    <3>1. Len(text) \in Nat /\ Len(text) < MaxText /\ lexeme \in Lexemes
      BY <1>4, OneMoreLexeme DEF Lexemes
    <3>2. Len(text) + 1 \in 0..MaxText
      BY <3>1, JsmnAssumption
    <3> QED
      BY <3>1, <3>2, TokenFields
  <2>2. PICK i \in OpenTokens :
          IsInnermost(i, OpenTokens) /\ tokens' = [tokens EXCEPT ![i].end = h]
    BY <1>4, <2>1 DEF Closes, Here
  <2>3. /\ i = toksuper /\ i \in 1..n /\ Tokens = 1..n
        /\ OpenTokens \subseteq 1..n
    <3>1. i <= toksuper /\ toksuper <= i /\ i \in 1..n /\ toksuper \in 1..n
      BY <2>1, <2>2, OpenFacts DEF IsInnermost, Tokens
    <3> QED
      BY <2>1, <3>1 DEF Tokens, OpenTokens
  <2>4. /\ Len(tokens') = n
        /\ \A j \in 1..n : /\ tokens'[j].type = tokens[j].type
                           /\ tokens'[j].start = tokens[j].start
                           /\ tokens'[j].end = IF j = i THEN h ELSE tokens[j].end
    BY <2>1, <2>2, <2>3, CloseFacts
  <2>5. /\ Tokens' = 1..n /\ \A j \in 1..n : Bracket(j)' <=> Bracket(j)
        /\ \A j \in 1..n : j # i => (Open(j)' <=> Open(j))
    BY <2>1, <2>4 DEF Tokens, Bracket, Open
  <2>6. ASSUME NEW u \in Seq(Lexemes), NEW match, Extends(u, text'), IsMatch(u, match),
               NEW j \in 1..n, Bracket(j)', ~Open(j)'
        PROVE  match[tokens'[j].start] = tokens'[j].end
    <3>1. Extends(u, text) /\ h <= Len(u) /\ u[h] = lexeme
      BY <1>4, <2>1, <2>6, ExtendsEarlier
    <3>2. CASE j = i
      BY <2>1, <2>3, <2>4, <2>6, <3>1, <3>2, NextCloser
    <3>3. CASE j # i
      <4>1. match[tokens[j].start] = tokens[j].end
        BY <2>3, <2>5, <2>6, <3>1, <3>3 DEF MatchedAsParsed
      <4> QED
        BY <2>4, <3>3, <4>1
    <3> QED
      BY <3>2, <3>3
  <2> QED
    BY <2>5, <2>6 DEF MatchedAsParsed
<1> QED
  BY <1>2, <1>3, <1>4, JsmnCases

-----------------------------------------------------------------------------
\* What is said of a text when the parser returns.  An array that is full is too
\* short for the text.
LEMMA NoMemIsRight ==
  ASSUME JsmnTypeOK, TreeInv, NEW lexeme \in Lexemes, ParseLexeme(lexeme), NoMemory(lexeme)
  PROVE  Cardinality(At(text', Openers \cup Scalars)) > NumTokens
<1> DEFINE A == At(text', Openers \cup Scalars)
<1>1. PICK m \in Nat :
        /\ m = Len(text) /\ text' \in Seq(Lexemes) /\ Len(text') = m + 1
        /\ text'[m + 1] = lexeme /\ \A p \in 1..m : text'[p] = text[p]
  BY OneMoreLexeme
<1>2. /\ NumTokens \in Nat /\ Len(tokens) = NumTokens /\ Tokens = 1..NumTokens
      /\ lexeme \in Openers \cup Scalars
  BY JsmnAssumption DEF NoMemory, Tokens
<1>3. ASSUME NEW i \in 1..NumTokens
      PROVE  tokens[i].start \in 1..m /\ text[tokens[i].start] \in Openers \cup Scalars
  <2>1. i \in Tokens /\ i \in Nat /\ i >= 1
    BY <1>2
  <2>2. i <= tokens[i].start /\ tokens[i].start <= m
    BY <1>1, <2>1 DEF TreeInv, StartsInText
  <2>3. tokens[i].start \in Nat
    BY <2>1, TokenFields
  <2>4. tokens[i].start \in 1..m
    BY <1>1, <2>1, <2>2, <2>3
  <2> QED
    BY <1>2, <2>1, <2>4 DEF TreeInv, EndsInText, Bracket
<1>4. \A i \in 1..NumTokens : tokens[i].start \in A
  BY <1>1, <1>3 DEF At
<1>5. m + 1 \in A
  BY <1>1, <1>2 DEF At
<1>6. \A i, j \in 1..NumTokens : i < j => tokens[i].start < tokens[j].start
  BY <1>2 DEF TreeInv, StartsInText
<1>7. IsFiniteSet(A)
  BY <1>1, FiniteAt
<1> HIDE DEF A
<1> DEFINE f == [i \in 1..(NumTokens + 1) |-> IF i = NumTokens + 1 THEN m + 1 ELSE tokens[i].start]
<1>8. f \in [1..(NumTokens + 1) -> A]
  BY <1>2, <1>4, <1>5
<1>9. \A i, j \in 1..(NumTokens + 1) : f[i] = f[j] => i = j
  BY <1>1, <1>2, <1>3, <1>6
<1> HIDE DEF f
<1>10. f \in Injection(1..(NumTokens + 1), A)
  BY <1>8, <1>9 DEF Injection, IsInjective
<1>11. Cardinality(1..(NumTokens + 1)) = NumTokens + 1
  BY <1>2, FS_Interval
<1>12. Cardinality(1..(NumTokens + 1)) <= Cardinality(A) /\ Cardinality(A) \in Nat
  BY <1>7, <1>10, FS_Injection, FS_CardinalityType
<1> QED
  BY <1>2, <1>11, <1>12 DEF A

\* A text with its last string whole, and with brackets behind it.
Whole(t) == [i \in 1..Len(t) |-> IF t[i] = "cut" THEN "string" ELSE t[i]]

LEMMA WholeFacts ==
  ASSUME NEW t \in Seq(Lexemes)
  PROVE  /\ Whole(t) \in Seq(Lexemes) /\ Len(Whole(t)) = Len(t) /\ Len(t) \in Nat
         /\ \A i \in 1..Len(t) : Whole(t)[i] = IF t[i] = "cut" THEN "string" ELSE t[i]
<1>1. Len(t) \in Nat
  OBVIOUS
<1>2. \A i \in 1..Len(t) : t[i] \in Lexemes
  OBVIOUS
<1>3. "string" \in Lexemes
  BY DEF Lexemes, Scalars
<1>4. Whole(t) \in [1..Len(t) -> Lexemes]
  BY <1>2, <1>3 DEF Whole
<1>5. Whole(t) \in Seq(Lexemes) /\ Len(Whole(t)) = Len(t)
  BY <1>1, <1>4
<1> QED
  BY <1>1, <1>5 DEF Whole

LEMMA WithRest ==
  ASSUME NEW w \in Seq(Lexemes), NEW n \in Nat, NEW rest \in [1..n -> Closers]
  PROVE  /\ w \o rest \in Seq(Lexemes) /\ Len(w) \in Nat /\ Len(w \o rest) = Len(w) + n
         /\ \A p \in 1..Len(w) : (w \o rest)[p] = w[p]
         /\ \A p \in 1..n : (w \o rest)[Len(w) + p] = rest[p]
<1>1. rest \in [1..n -> Lexemes]
  BY DEF Lexemes
<1>2. rest \in Seq(Lexemes) /\ Len(rest) = n
  BY <1>1
<1>3. Len(w) \in Nat
  OBVIOUS
<1>4. /\ w \o rest \in Seq(Lexemes) /\ Len(w \o rest) = Len(w) + n
      /\ \A i \in 1..(Len(w) + n) : (w \o rest)[i] = IF i <= Len(w) THEN w[i] ELSE rest[i - Len(w)]
  BY <1>2, ConcatProperties
<1>5. \A p \in 1..Len(w) : (w \o rest)[p] = w[p]
  BY <1>3, <1>4
<1>6. \A p \in 1..n : (w \o rest)[Len(w) + p] = rest[p]
  <2>1. ASSUME NEW p \in 1..n
        PROVE  /\ Len(w) + p \in 1..(Len(w) + n) /\ ~(Len(w) + p <= Len(w))
               /\ (Len(w) + p) - Len(w) = p
    BY <1>3
  <2> QED
    BY <1>4, <2>1
<1> QED
  BY <1>3, <1>4, <1>5, <1>6

\* No bracket completes a text with a bad character in it, or a closer that closes
\* nothing.
LEMMA InvalIsRight ==
  ASSUME JsmnTypeOK, TreeInv, EveryLexeme, MatchedAsParsed,
         NEW lexeme \in Lexemes, ParseLexeme(lexeme),
         BadCharacter(lexeme) \/ Unmatched(lexeme)
  PROVE  ~Completable(text')
<1>1. PICK m \in Nat :
        /\ m = Len(text) /\ text' \in Seq(Lexemes) /\ Len(text') = m + 1
        /\ text'[m + 1] = lexeme /\ \A p \in 1..m : text'[p] = text[p]
  BY OneMoreLexeme
<1>2. lexeme # "cut"
  BY Kinds DEF BadCharacter, Unmatched
<1>3. ASSUME NEW n \in Nat, NEW rest \in [1..n -> Closers], WellFormed(Whole(text') \o rest)
      PROVE  FALSE
  <2> DEFINE u == Whole(text') \o rest
  <2>1. /\ u \in Seq(Lexemes) /\ Len(u) = m + 1 + n
        /\ \A p \in 1..(m + 1) : u[p] = IF text'[p] = "cut" THEN "string" ELSE text'[p]
    <3> DEFINE w == Whole(text')
    <3>1. /\ w \in Seq(Lexemes) /\ Len(w) = m + 1
          /\ \A p \in 1..(m + 1) : w[p] = IF text'[p] = "cut" THEN "string" ELSE text'[p]
      BY <1>1, WholeFacts
    <3> HIDE DEF w
    <3>2. /\ w \o rest \in Seq(Lexemes) /\ Len(w \o rest) = Len(w) + n
          /\ \A p \in 1..Len(w) : (w \o rest)[p] = w[p]
      BY <3>1, WithRest
    <3>3. /\ Len(w \o rest) = m + 1 + n
          /\ \A p \in 1..(m + 1) : (w \o rest)[p] = w[p]
      BY <1>1, <3>1, <3>2
    <3>4. u = w \o rest
      BY DEF w
    <3> HIDE DEF u
    <3> QED
      BY <3>1, <3>2, <3>3, <3>4
  <2>2. WellFormed(u)
    BY <1>3
  <2> HIDE DEF u
  <2>3. \A p \in 1..m : text[p] # "cut"
    BY <1>1 DEF EveryLexeme
  <2>4. u[m + 1] = lexeme /\ \A p \in 1..m : u[p] = text[p]
    BY <1>1, <1>2, <2>1, <2>3
  <2>5. Extends(u, text) /\ m + 1 <= Len(u)
    BY <1>1, <2>1, <2>4 DEF Extends
  <2>6. ~BadCharacter(lexeme)
    <3>1. u[m + 1] # "bad"
      BY <1>1, <2>2, <2>1 DEF WellFormed, At
    <3> QED
      BY <2>4, <3>1 DEF BadCharacter
  <2>7. PICK match : IsMatch(u, match)
    BY <2>2 DEF WellFormed, IsMatch
  <2>8. lexeme \in Closers
    BY <2>6 DEF Unmatched
  <2>9. OpenTokens # {} /\ match[tokens[toksuper].start] = m + 1
    BY <1>1, <2>1, <2>4, <2>5, <2>7, <2>8, NextCloser
  <2>10. /\ toksuper \in OpenTokens /\ IsInnermost(toksuper, OpenTokens)
         /\ toksuper \in Tokens /\ Bracket(toksuper)
    BY <2>9, OpenFacts DEF TreeInv, SuperIsInnermost
  <2>11. /\ tokens[toksuper].start \in At(u, Openers)
         /\ u[tokens[toksuper].start] = tokens[toksuper].type
    BY <2>1, <2>5, <2>10, BracketIsOpener
  <2>12. lexeme = Closer(tokens[toksuper].type)
    BY <2>4, <2>7, <2>9, <2>11 DEF IsMatch, Matches
  <2> QED
    BY <2>6, <2>10, <2>12 DEF Unmatched
<1>4. Completable(text') =>
        \E n \in 0..Len(text') : \E rest \in [1..n -> Closers] : WellFormed(Whole(text') \o rest)
  BY DEF Completable, Whole
<1>5. 0..Len(text') \subseteq Nat
  BY <1>1
<1> QED
  BY <1>3, <1>4, <1>5

\* A text with an open bracket is not well formed.
LEMMA OpenIsNotWellFormed ==
  ASSUME JsmnTypeOK, TreeInv, EveryLexeme, MatchedAsParsed, OpenTokens # {}
  PROVE  ~WellFormed(text)
<1>1. text \in Seq(Lexemes) /\ Extends(text, text) /\ Len(text) \in Nat
  BY TokenFields DEF JsmnTypeOK, Extends
<1> SUFFICES ASSUME WellFormed(text)
             PROVE  FALSE
  OBVIOUS
<1>2. PICK match : IsMatch(text, match)
  BY DEF WellFormed, IsMatch
<1>3. PICK i \in Tokens : Open(i) /\ Bracket(i)
  BY OpenFacts
<1> DEFINE p == tokens[i].start
           c == match[p]
<1>4. p \in At(text, Openers)
  BY <1>1, <1>3, BracketIsOpener
<1>5. c \in At(text, Closers)
  BY <1>2, <1>4 DEF IsMatch
<1> HIDE DEF p, c
<1>6. c \in Nat /\ c \in 1..Len(text) /\ text[c] \in Closers
  BY <1>1, <1>5, FiniteAt
<1>7. PICK j \in Tokens : Bracket(j) /\ tokens[j].end = c
  BY <1>6 DEF EveryLexeme
<1>8. ~Open(j)
  BY <1>6, <1>7 DEF Open
<1> DEFINE q == tokens[j].start
<1>9. match[q] = match[p] /\ q \in At(text, Openers)
  BY <1>1, <1>2, <1>7, <1>8, BracketIsOpener DEF MatchedAsParsed, c
<1>10. p = q
  <2>1. p \in Nat /\ q \in Nat
    BY <1>1, <1>4, <1>9, FiniteAt
  <2> HIDE DEF q
  <2> QED
    BY <1>2, <1>4, <1>9, <2>1 DEF IsMatch, Matches
<1>11. i = j
  <2>1. i \in Nat /\ j \in Nat /\ tokens[i].start \in Nat /\ tokens[i].start = tokens[j].start
    BY <1>10, TokenFields DEF Tokens, p
  <2>2. \A x, y \in Tokens : x < y => tokens[x].start < tokens[y].start
    BY DEF TreeInv, StartsInText
  <2> QED
    BY <2>1, <2>2
<1> QED
  BY <1>3, <1>8, <1>11

\* With a closer for each open bracket, from the innermost to the first, the text
\* is well formed: closed brackets are matched by their ends, open ones by what is
\* added.
LEMMA Completion ==
  ASSUME JsmnTypeOK, TreeInv, EveryLexeme, OpenInOrder,
         NEW w \in Seq(Lexemes), Extends(w, text),
         \A p \in 1..Len(w) : p > Len(text) => w[p] \in Scalars
  PROVE  \E n \in 0..Len(tokens) : \E rest \in [1..n -> Closers] :
           (OpenTokens = {} => n = 0) /\ WellFormed(w \o rest)
<1>1. PICK n \in 0..Len(tokens) : \E s \in [1..n -> OpenTokens] : Lists(s, n, OpenTokens)
  BY DEF OpenInOrder
<1> PICK s \in [1..n -> OpenTokens] : Lists(s, n, OpenTokens)
  BY <1>1
<1>2. /\ n \in Nat /\ Len(text) \in Nat /\ Len(w) \in Nat /\ Len(text) <= Len(w)
      /\ \A p \in 1..Len(text) : w[p] = text[p]
  BY TokenFields DEF Extends
<1>3. /\ \A i \in OpenTokens : i \in Tokens /\ Open(i) /\ Bracket(i)
      /\ \A i \in Tokens : i \in Nat /\ (Open(i) => i \in OpenTokens)
  BY OpenFacts, TokenFields DEF Tokens
<1>4. /\ \A a \in 1..n : s[a] \in OpenTokens
      /\ \A a, b \in 1..n : a < b => s[a] < s[b]
      /\ \A i \in OpenTokens : \E a \in 1..n : s[a] = i
  BY DEF Lists, Ascending
<1>5. OpenTokens = {} => n = 0
  BY <1>2, <1>4
\* The place of an open bracket among them.
<1> DEFINE d == [i \in OpenTokens |-> CHOOSE a \in 1..n : s[a] = i]
<1>6. \A i \in OpenTokens : d[i] \in 1..n /\ s[d[i]] = i
  BY <1>4
<1> HIDE DEF d
<1>7. \A a \in 1..n : d[s[a]] = a
  <2>1. ASSUME NEW a \in 1..n
        PROVE  d[s[a]] = a
    <3>1. s[a] \in OpenTokens /\ d[s[a]] \in 1..n /\ s[d[s[a]]] = s[a] /\ s[a] \in Nat
      BY <1>3, <1>4, <1>6
    <3>2. ~(a < d[s[a]]) /\ ~(d[s[a]] < a)
      BY <1>4, <3>1
    <3> QED
      BY <1>2, <3>1, <3>2
  <2> QED
    BY <2>1
<1>8. \A i, j \in OpenTokens : i < j => d[i] < d[j]
  <2>1. ASSUME NEW i \in OpenTokens, NEW j \in OpenTokens, i < j
        PROVE  d[i] < d[j]
    <3>1. i \in Nat /\ j \in Nat /\ d[i] \in 1..n /\ d[j] \in 1..n /\ s[d[i]] = i /\ s[d[j]] = j
      BY <1>3, <1>6
    <3>2. d[i] # d[j] /\ ~(d[j] < d[i])
      BY <1>4, <2>1, <3>1
    <3> QED
      BY <1>2, <3>1, <3>2
  <2> QED
    BY <2>1
<1> DEFINE rest == [k \in 1..n |-> Closer(tokens[s[n + 1 - k]].type)]
           u == w \o rest
           L == Len(w)
<1>9. \A k \in 1..n : n + 1 - k \in 1..n
  BY <1>2
<1>10. rest \in [1..n -> Closers]
  <2>1. \A k \in 1..n : s[n + 1 - k] \in OpenTokens
    BY <1>4, <1>9
  <2>2. \A i \in OpenTokens : Closer(tokens[i].type) \in Closers
    BY <1>3, Kinds DEF Bracket
  <2> QED
    BY <2>1, <2>2
<1>11. \A i \in OpenTokens : rest[n + 1 - d[i]] = Closer(tokens[i].type)
  <2>1. ASSUME NEW i \in OpenTokens
        PROVE  rest[n + 1 - d[i]] = Closer(tokens[i].type)
    <3>1. d[i] \in 1..n /\ n + 1 - d[i] \in 1..n /\ n + 1 - (n + 1 - d[i]) = d[i]
      BY <1>2, <1>6
    <3> QED
      BY <1>6, <3>1
  <2> QED
    BY <2>1
<1> HIDE DEF rest
<1>12. /\ u \in Seq(Lexemes) /\ Len(u) = L + n /\ L \in Nat
       /\ \A p \in 1..L : u[p] = w[p]
       /\ \A k \in 1..n : u[L + k] = rest[k]
  BY <1>2, <1>10, WithRest
<1> HIDE DEF u, L
<1>13. /\ Len(text) <= L
       /\ \A p \in 1..Len(text) : u[p] = text[p]
       /\ \A p \in 1..L : p > Len(text) => u[p] \in Scalars
  BY <1>2, <1>12 DEF L
<1>14. \A p \in 1..(L + n) : p > L => u[p] \in Closers
  <2>1. ASSUME NEW p \in 1..(L + n), p > L
        PROVE  u[p] \in Closers
    <3>1. p - L \in 1..n /\ p = L + (p - L)
      BY <1>2, <1>12, <2>1
    <3> QED
      BY <1>10, <1>12, <3>1
  <2> QED
    BY <2>1
<1>15. Extends(u, text)
  BY <1>2, <1>12, <1>13 DEF Extends
\* Nothing in it is bad or cut.
<1>16. At(u, {"bad", "cut"}) = {}
  <2>1. \A p \in 1..Len(text) : u[p] \notin {"bad", "cut"}
    BY <1>13 DEF EveryLexeme
  <2>2. \A p \in 1..(L + n) : u[p] \notin {"bad", "cut"}
    <3>1. ASSUME NEW p \in 1..(L + n)
          PROVE  \/ p \in 1..Len(text)
                 \/ p \in 1..L /\ p > Len(text)
                 \/ p > L
      BY <1>2, <1>12, <1>13
    <3>2. \A x \in Scalars \cup Closers : x \notin {"bad", "cut"}
      BY Kinds
    <3> QED
      BY <1>13, <1>14, <2>1, <3>1, <3>2
  <2> QED
    BY <1>12, <2>2 DEF At
<1> DEFINE A == At(u, Openers)
           B == At(u, Closers)
\* Its openers are the tokens of brackets.
<1>17. \A p \in A : \E i \in Tokens : tokens[i].start = p /\ Bracket(i)
  <2>1. ASSUME NEW p \in A
        PROVE  \E i \in Tokens : tokens[i].start = p /\ Bracket(i)
    <3>1. p \in Nat /\ 1 <= p /\ p <= L + n /\ u[p] \in Openers
      BY <1>12, FiniteAt
    <3>2. p <= L
      BY <1>2, <1>12, <1>14, <3>1, Kinds
    <3>3. p <= Len(text)
      BY <1>2, <1>12, <1>13, <3>1, <3>2, Kinds
    <3>4. p \in 1..Len(text) /\ text[p] \in Openers
      BY <1>2, <1>13, <3>1, <3>3
    <3>5. PICK i \in Tokens : tokens[i].start = p
      BY <3>4 DEF EveryLexeme
    <3> QED
      BY <1>12, <1>15, <3>5, BracketIsOpener
  <2> QED
    BY <2>1
<1>18. \A i \in Tokens : Bracket(i) =>
         /\ tokens[i].start \in A /\ tokens[i].start \in 1..Len(text)
         /\ u[tokens[i].start] = tokens[i].type
  BY <1>12, <1>15, BracketIsOpener
<1>19. \A i, j \in Tokens : tokens[i].start < tokens[j].start <=> i < j
  <2>1. \A i, j \in Tokens : i < j => tokens[i].start < tokens[j].start
    BY DEF TreeInv, StartsInText
  <2>2. \A i \in Tokens : i \in Nat /\ tokens[i].start \in Nat
    BY TokenFields DEF Tokens
  <2> QED
    BY <2>1, <2>2
\* Where bracket i is closed.
<1> DEFINE Place(i) == IF Open(i) THEN L + (n + 1 - d[i]) ELSE tokens[i].end
           at == [p \in A |-> CHOOSE i \in Tokens : tokens[i].start = p]
           match == [p \in A |-> Place(at[p])]
<1>20. \A i \in Tokens : Bracket(i) /\ ~Open(i) =>
         /\ tokens[i].start < Place(i) /\ Place(i) \in 1..Len(text)
         /\ u[Place(i)] = Closer(tokens[i].type)
  <2>1. ASSUME NEW i \in Tokens, Bracket(i), ~Open(i)
        PROVE  /\ tokens[i].start < tokens[i].end /\ tokens[i].end <= Len(text)
               /\ text[tokens[i].end] = Closer(tokens[i].type)
               /\ tokens[i].start \in Nat /\ tokens[i].end \in Nat
    BY <2>1, TokenFields DEF TreeInv, EndsInText
  <2>2. ASSUME NEW i \in Tokens, Bracket(i), ~Open(i)
        PROVE  tokens[i].end \in 1..Len(text)
    BY <1>2, <2>1, <2>2
  <2> QED
    BY <1>13, <2>1, <2>2
<1>21. \A i \in Tokens : Open(i) =>
         /\ i \in OpenTokens /\ d[i] \in 1..n
         /\ Place(i) = L + (n + 1 - d[i]) /\ Place(i) > L /\ Place(i) <= L + n
         /\ u[Place(i)] = Closer(tokens[i].type)
  <2>1. ASSUME NEW i \in Tokens, Open(i)
        PROVE  /\ i \in OpenTokens /\ d[i] \in 1..n /\ n + 1 - d[i] \in 1..n
               /\ Place(i) = L + (n + 1 - d[i])
    BY <1>2, <1>3, <1>6, <2>1
  <2> HIDE DEF Place
  <2>2. ASSUME NEW i \in Tokens, Open(i)
        PROVE  /\ Place(i) > L /\ Place(i) <= L + n
               /\ u[Place(i)] = Closer(tokens[i].type)
    <3>1. PICK k \in 1..n : k = n + 1 - d[i] /\ Place(i) = L + k
      BY <2>1, <2>2
    <3>2. u[L + k] = Closer(tokens[i].type)
      <4>1. rest[k] = Closer(tokens[i].type)
        BY <1>11, <2>1, <2>2, <3>1
      <4> QED
        BY <1>12, <4>1
    <3> QED
      BY <1>2, <1>12, <3>1, <3>2
  <2> QED
    BY <2>1, <2>2
<1> HIDE DEF Place
<1>22. \A i \in Tokens : Bracket(i) =>
         /\ tokens[i].start \in Nat /\ Place(i) \in Nat /\ tokens[i].start < Place(i)
         /\ Place(i) \in B /\ u[Place(i)] = Closer(u[tokens[i].start])
  <2>1. ASSUME NEW i \in Tokens, Bracket(i)
        PROVE  /\ tokens[i].start \in Nat /\ Place(i) \in Nat /\ tokens[i].start < Place(i)
               /\ Place(i) \in 1..(L + n)
               /\ u[Place(i)] = Closer(tokens[i].type)
    <3>1. /\ tokens[i].start \in Nat /\ tokens[i].start <= L
          /\ Len(text) \in Nat /\ n \in Nat /\ L \in Nat /\ Len(text) <= L
      BY <1>2, <1>12, <1>13, <1>18, <2>1
    <3>2. CASE Open(i)
      <4>1. /\ Place(i) > L /\ Place(i) <= L + n /\ Place(i) = L + (n + 1 - d[i])
            /\ d[i] \in 1..n /\ u[Place(i)] = Closer(tokens[i].type)
        BY <1>21, <3>2
      <4>2. Place(i) \in Nat
        <5>1. d[i] \in Nat /\ d[i] <= n
          BY <3>1, <4>1
        <5> QED
          BY <3>1, <4>1, <5>1
      <4>3. Place(i) > L /\ Place(i) <= L + n
        BY <1>21, <3>2
      <4>4. tokens[i].start < Place(i) /\ Place(i) \in 1..(L + n)
        BY <3>1, <4>2, <4>3
      <4> QED
        BY <3>1, <4>1, <4>2, <4>4
    <3>3. CASE ~Open(i)
      <4>1. /\ tokens[i].start < Place(i) /\ Place(i) \in 1..Len(text)
            /\ u[Place(i)] = Closer(tokens[i].type)
        BY <1>20, <2>1, <3>3
      <4> QED
        BY <3>1, <4>1
    <3> QED
      BY <3>2, <3>3
  <2>2. \A i \in Tokens : Bracket(i) => Closer(tokens[i].type) \in Closers
    BY Kinds DEF Bracket
  <2> QED
    BY <1>12, <1>18, <2>1, <2>2 DEF At
<1>23. \A i, j \in Tokens : Bracket(i) /\ Bracket(j) /\ i < j =>
         /\ Place(i) # Place(j)
         /\ tokens[j].start < Place(i) => Place(j) < Place(i)
  <2>1. ASSUME NEW i \in Tokens, NEW j \in Tokens, Bracket(i), Bracket(j), i < j
        PROVE  /\ Place(i) # Place(j)
               /\ tokens[j].start < Place(i) => Place(j) < Place(i)
    <3>1. CASE Open(i) /\ Open(j)
      <4>1. /\ Place(i) = L + (n + 1 - d[i]) /\ Place(j) = L + (n + 1 - d[j])
            /\ d[i] \in 1..n /\ d[j] \in 1..n /\ d[i] < d[j]
        BY <1>8, <1>21, <2>1, <3>1
      <4>2. PICK x \in Nat, y \in Nat :
              x < y /\ Place(i) = L + (n + 1 - x) /\ Place(j) = L + (n + 1 - y)
        <5>1. d[i] \in Nat /\ d[j] \in Nat
          BY <1>2, <4>1
        <5> QED
          BY <4>1, <5>1
      <4>3. Place(j) < Place(i)
        BY <1>2, <1>12, <4>2
      <4> QED
        BY <1>22, <2>1, <4>3
    <3>2. CASE Open(i) /\ ~Open(j)
      <4>1. Place(i) > L /\ Place(j) \in 1..Len(text)
        BY <1>20, <1>21, <2>1, <3>2
      <4>2. Place(i) \in Nat
        BY <1>22, <2>1
      <4> QED
        BY <1>2, <1>12, <1>13, <4>1, <4>2
    <3>3. CASE ~Open(i) /\ Open(j)
      <4>1. Place(i) = tokens[i].end
        BY <3>3 DEF Place
      <4>2. tokens[j].start < Place(i) => Encloses(i, j)
        BY <2>1, <4>1 DEF Encloses, Bracket
      <4>3. ~Encloses(i, j)
        BY <3>3 DEF TreeInv, Nested
      <4> QED
        BY <1>2, <1>12, <1>13, <1>20, <1>21, <2>1, <3>3, <4>2, <4>3
    <3>4. CASE ~Open(i) /\ ~Open(j)
      <4>1. Place(i) = tokens[i].end /\ Place(j) = tokens[j].end
        BY <3>4 DEF Place
      <4>2. tokens[i].end # tokens[j].end
        BY <2>1, <3>4 DEF TreeInv, EndsInText
      <4>3. tokens[j].start < Place(i) => Encloses(i, j)
        BY <2>1, <4>1 DEF Encloses, Bracket
      <4>4. Encloses(i, j) => tokens[j].end <= tokens[i].end
        BY <3>4 DEF TreeInv, Nested
      <4>5. tokens[i].end \in Nat /\ tokens[j].end \in Nat
        BY TokenFields
      <4> QED
        BY <4>1, <4>2, <4>3, <4>4, <4>5
    <3> QED
      BY <3>1, <3>2, <3>3, <3>4
  <2> QED
    BY <2>1
<1>24. \A i \in Tokens : Bracket(i) => at[tokens[i].start] = i
  <2>1. ASSUME NEW i \in Tokens, Bracket(i)
        PROVE  at[tokens[i].start] = i
    <3>1. /\ at[tokens[i].start] \in Tokens
          /\ tokens[at[tokens[i].start]].start = tokens[i].start
      BY <1>18, <2>1
    <3> HIDE DEF at
    <3>2. ~(i < at[tokens[i].start]) /\ ~(at[tokens[i].start] < i)
      <4>1. tokens[i].start \in Nat
        BY TokenFields
      <4> QED
        BY <1>19, <3>1, <4>1
    <3>3. i \in Nat /\ at[tokens[i].start] \in Nat
      BY <1>3, <3>1
    <3> QED
      BY <3>2, <3>3
  <2> QED
    BY <2>1
<1> HIDE DEF at
<1>25. \A i \in Tokens : Bracket(i) => match[tokens[i].start] = Place(i)
  BY <1>18, <1>24
<1>26. match = [p \in A |-> match[p]]
  OBVIOUS
<1> HIDE DEF match, A, B
<1>27. match \in [A -> B]
  <2>1. \A p \in A : match[p] \in B
    BY <1>17, <1>22, <1>25
  <2> QED
    BY <1>26, <2>1
<1>28. Matches(u, match)
  <2>1. ASSUME NEW p \in A
        PROVE  p < match[p] /\ u[match[p]] = Closer(u[p])
    BY <1>17, <1>22, <1>25
  <2>2. ASSUME NEW p \in A, NEW q \in A, p < q
        PROVE  match[p] # match[q] /\ (q < match[p] => match[q] < match[p])
    <3>1. PICK i \in Tokens : tokens[i].start = p /\ Bracket(i)
      BY <1>17
    <3>2. PICK j \in Tokens : tokens[j].start = q /\ Bracket(j)
      BY <1>17
    <3>3. i < j
      BY <1>19, <2>2, <3>1, <3>2
    <3> QED
      BY <1>23, <1>25, <3>1, <3>2, <3>3
  <2> QED
    BY <2>1, <2>2 DEF Matches, A
\* Every closer is the place of a bracket.
<1>29. \A c \in B : \E p \in A : match[p] = c
  <2>1. ASSUME NEW c \in B
        PROVE  \E i \in Tokens : Bracket(i) /\ Place(i) = c
    <3>1. c \in Nat /\ 1 <= c /\ c <= L + n /\ u[c] \in Closers
      BY <1>12, FiniteAt DEF B
    <3>2. CASE c > L
      <4>1. PICK a \in 1..n : L + (n + 1 - a) = c
        <5>1. PICK x \in 1..n : c = L + x
          <6>1. c - L \in 1..n /\ c = L + (c - L)
            BY <1>2, <1>12, <3>1, <3>2
          <6> QED
            BY <6>1
        <5>2. n + 1 - x \in 1..n /\ n + 1 - (n + 1 - x) = x
          BY <1>2, <5>1
        <5> QED
          BY <5>1, <5>2
      <4>2. s[a] \in OpenTokens /\ d[s[a]] = a
        BY <1>4, <1>7, <4>1
      <4> QED
        BY <1>3, <1>21, <4>1, <4>2
    <3>3. CASE ~(c > L)
      <4>1. c \in 1..L
        BY <1>12, <3>1, <3>3
      <4>2. c <= Len(text)
        BY <1>2, <1>13, <3>1, <4>1, Kinds
      <4>3. c \in 1..Len(text) /\ text[c] \in Closers
        BY <1>2, <1>13, <3>1, <4>2
      <4>4. PICK i \in Tokens : Bracket(i) /\ tokens[i].end = c
        BY <4>3 DEF EveryLexeme
      <4>5. ~Open(i)
        BY <3>1, <4>4 DEF Open
      <4> QED
        BY <4>4, <4>5 DEF Place
    <3> QED
      BY <3>2, <3>3
  <2> QED
    BY <1>18, <1>25, <2>1
<1>30. Cardinality(A) = Cardinality(B)
  <2>1. IsFiniteSet(A) /\ \A p \in A : p \in Nat
    BY <1>12, FiniteAt DEF A
  <2>2. \A p, q \in A : p < q => match[p] # match[q]
    BY <1>28 DEF Matches, A
  <2>3. match \in Surjection(A, B)
    BY <1>27, <1>29 DEF Surjection
  <2>4. \A p, q \in A : match[p] = match[q] => p = q
    BY <2>1, <2>2
  <2>5. match \in Injection(A, B)
    BY <1>27, <2>4 DEF Injection, IsInjective
  <2> QED
    BY <2>1, <2>3, <2>5, FS_Surjection
<1>31. WellFormed(u)
  BY <1>16, <1>27, <1>28, <1>30 DEF WellFormed, A, B
<1> QED
  BY <1>5, <1>10, <1>31 DEF u

\* Nothing behind a text.
LEMMA NoRest ==
  ASSUME NEW w \in Seq(Lexemes), NEW rest \in [1..0 -> Closers]
  PROVE  w \o rest = w
<1>1. /\ w \o rest \in Seq(Lexemes) /\ Len(w) \in Nat /\ Len(w \o rest) = Len(w) + 0
      /\ \A p \in 1..Len(w) : (w \o rest)[p] = w[p]
  BY WithRest
<1>2. Len(w \o rest) = Len(w)
  BY <1>1
<1> QED
  BY <1>1, <1>2, SeqEqual

LEMMA CompletableText ==
  ASSUME JsmnTypeOK, TreeInv, EveryLexeme, OpenInOrder,
         NEW t \in Seq(Lexemes), Extends(Whole(t), text),
         \A p \in 1..Len(t) : p > Len(text) => t[p] \in Scalars \cup {"cut"}
  PROVE  Completable(t)
<1> DEFINE w == Whole(t)
<1>1. /\ w \in Seq(Lexemes) /\ Len(w) = Len(t) /\ Len(t) \in Nat
      /\ \A p \in 1..Len(t) : w[p] = IF t[p] = "cut" THEN "string" ELSE t[p]
  BY WholeFacts
<1>2. \A p \in 1..Len(w) : p > Len(text) => w[p] \in Scalars
  BY <1>1 DEF Scalars
<1>3. Completable(t) <=>
        \E n \in 0..Len(t) : \E rest \in [1..n -> Closers] : WellFormed(w \o rest)
  BY DEF Completable, Whole
<1> HIDE DEF w
<1>4. PICK n \in 0..Len(tokens) : \E rest \in [1..n -> Closers] : WellFormed(w \o rest)
  BY <1>1, <1>2, Completion DEF w
<1>5. Len(tokens) \in Nat /\ Len(text) \in Nat
  BY TokenFields
<1>6. Len(tokens) <= Len(text)
  BY DEF TreeInv, StartsInText
<1>7. n \in 0..Len(t)
  BY <1>1, <1>4, <1>5, <1>6 DEF Extends, w
<1> QED
  BY <1>3, <1>4, <1>7

LEMMA ResultStep ==
  ASSUME JsmnInv, JsmnNext
  PROVE  ResultIsRight'
<1>1. /\ result = "none" /\ JsmnTypeOK /\ TreeInv
      /\ EveryLexeme /\ OpenInOrder /\ MatchedAsParsed
  BY DEF JsmnInv, JsmnNext, EndOfText, ParseLexeme, Working
<1>2. /\ text \in Seq(Lexemes) /\ Len(text) \in Nat
      /\ \A p \in 1..Len(text) : text[p] # "cut"
  BY <1>1, TokenFields DEF JsmnTypeOK, EveryLexeme
<1>3. Extends(text, text) /\ \A p \in 1..Len(text) : ~(p > Len(text))
  BY <1>2 DEF Extends
<1>4. CASE EndOfText /\ OpenTokens = {}
  <2>1. text' = text /\ result' = "SUCCESS"
    BY <1>4 DEF EndOfText, Returns
  <2>2. \E n \in 0..Len(tokens) : \E rest \in [1..n -> Closers] :
          (OpenTokens = {} => n = 0) /\ WellFormed(text \o rest)
    BY <1>1, <1>2, <1>3, Completion
  <2>3. PICK rest \in [1..0 -> Closers] : WellFormed(text \o rest)
    BY <1>4, <2>2
  <2>4. WellFormed(text)
    BY <1>2, <2>3, NoRest
  <2> QED
    BY <2>1, <2>4 DEF ResultIsRight
<1>5. CASE EndOfText /\ OpenTokens # {}
  <2>1. text' = text /\ result' = "PART"
    BY <1>5 DEF EndOfText, Returns
  <2>2. ~WellFormed(text)
    BY <1>1, <1>5, OpenIsNotWellFormed
  <2>3. Extends(Whole(text), text)
    BY <1>2, WholeFacts DEF Extends
  <2>4. Completable(text)
    BY <1>1, <1>2, <1>3, <2>3, CompletableText
  <2> QED
    BY <2>1, <2>2, <2>4 DEF ResultIsRight
<1>6. ASSUME NEW lexeme \in Lexemes, ParseLexeme(lexeme)
      PROVE  ResultIsRight'
  <2>1. PICK m \in Nat :
          /\ m = Len(text) /\ text' \in Seq(Lexemes) /\ Len(text') = m + 1
          /\ text'[m + 1] = lexeme /\ \A p \in 1..m : text'[p] = text[p]
    BY <1>1, <1>6, OneMoreLexeme
  <2>2. CASE Opens(lexeme) \/ Closes(lexeme) \/ Scalar(lexeme)
    <3>1. result' = "none"
      BY <1>1, <2>2 DEF Opens, Closes, Scalar
    <3> QED
      BY <3>1 DEF ResultIsRight
  <2>3. CASE BadCharacter(lexeme) \/ Unmatched(lexeme)
    <3>1. ~Completable(text')
      BY <1>1, <1>6, <2>3, InvalIsRight
    <3>2. result' = "INVAL"
      BY <2>3 DEF BadCharacter, Unmatched, Returns
    <3> QED
      BY <3>1, <3>2 DEF ResultIsRight
  <2>4. CASE CutString(lexeme)
    <3>1. lexeme = "cut" /\ result' = "PART"
      BY <2>4 DEF CutString, Returns
    <3>2. m + 1 \in At(text', {"bad", "cut"})
      BY <2>1, <3>1 DEF At
    <3>3. ~WellFormed(text')
      BY <3>2 DEF WellFormed
    <3>4. Extends(Whole(text'), text)
      BY <1>2, <2>1, WholeFacts DEF Extends
    <3>5. \A p \in 1..Len(text') : p > Len(text) => text'[p] \in Scalars \cup {"cut"}
      BY <2>1, <3>1
    <3>6. Completable(text')
      BY <1>1, <2>1, <3>4, <3>5, CompletableText
    <3> QED
      BY <3>1, <3>3, <3>6 DEF ResultIsRight
  <2>5. CASE NoMemory(lexeme)
    <3>1. result' = "NOMEM"
      BY <2>5 DEF NoMemory, Returns
    <3>2. Cardinality(At(text', Openers \cup Scalars)) > NumTokens
      BY <1>1, <1>6, <2>5, NoMemIsRight
    <3> QED
      BY <3>1, <3>2 DEF ResultIsRight
  <2> QED
    BY <1>6, <2>2, <2>3, <2>4, <2>5 DEF ParseLexeme
<1> QED
  BY <1>4, <1>5, <1>6 DEF JsmnNext

-----------------------------------------------------------------------------
\* The server's answer.  A part of it that is not empty has an open bracket, and the
\* whole of it has its first three tokens where its first three lexemes are.
LEMMA TheAnswerFacts ==
  ASSUME NEW t \in Seq(Lexemes)
  PROVE  /\ Len(t) < 4 /\ t = SubSeq(TheAnswer, 1, Len(t)) =>
              \A p \in 1..Len(t) :
                /\ t[p] \in {"{", "Prefix", "string"}
                /\ p = 1 => t[p] = "{"
         /\ Len(t) >= 4 /\ SubSeq(t, 1, 4) = TheAnswer =>
              t[1] = "{" /\ t[2] = "Prefix" /\ t[3] = "string"
<1> DEFINE s == TheAnswer
<1>1. Len(t) \in Nat /\ \A p \in 1..Len(t) : t[p] \in Lexemes
  OBVIOUS
<1>2. s[1] = "{" /\ s[2] = "Prefix" /\ s[3] = "string" /\ s[4] = "}"
  BY DEF TheAnswer
<1>3. \A i \in 1..4 : s[i] \in Lexemes
  <2>1. 1..4 = {1, 2, 3, 4}
    OBVIOUS
  <2> QED
    BY <1>2, <2>1 DEF Lexemes, Openers, Closers, Scalars
<1> HIDE DEF s
<1>4. ASSUME Len(t) < 4, t = SubSeq(s, 1, Len(t)), NEW p \in 1..Len(t)
      PROVE  t[p] \in {"{", "Prefix", "string"} /\ (p = 1 => t[p] = "{")
  <2>1. p = 1 \/ p = 2 \/ p = 3
    BY <1>1, <1>4
  <2>2. PICK n \in Nat : n = Len(t) /\ n < 4
    BY <1>1, <1>4
  <2>3. \A i \in 1..n : s[i] \in Lexemes
    BY <1>3, <2>2
  <2>4. \A i \in 1..(n - 1 + 1) : SubSeq(s, 1, n)[i] = s[1 + i - 1]
    BY <2>2, <2>3, SubSeqProperties
  <2>5. p \in 1..(n - 1 + 1) /\ 1 + p - 1 = p
    BY <1>4, <2>2
  <2>6. t[p] = s[p]
    BY <1>4, <2>2, <2>4, <2>5
  <2> QED
    BY <1>2, <2>1, <2>6
<1>5. ASSUME Len(t) >= 4, SubSeq(t, 1, 4) = s
      PROVE  t[1] = "{" /\ t[2] = "Prefix" /\ t[3] = "string"
  <2>1. \A i \in 1..4 : t[i] \in Lexemes
    BY <1>1, <1>5
  <2>2. \A i \in 1..(4 - 1 + 1) : SubSeq(t, 1, 4)[i] = t[1 + i - 1]
    BY <2>1, SubSeqProperties
  <2>3. s[1] = t[1] /\ s[2] = t[2] /\ s[3] = t[3]
    BY <1>5, <2>2
  <2> QED
    BY <1>2, <2>3
<1> QED
  BY <1>4, <1>5 DEF s

LEMMA WholeAnswer ==
  ASSUME JsmnTypeOK, TreeInv, EveryLexeme,
         Len(text) >= 4, SubSeq(text, 1, 4) = TheAnswer
  PROVE  tokens[3].start = 3 /\ \A i \in 1..NumTokens : Copies(i) <=> i = 3
<1>1. /\ text \in Seq(Lexemes) /\ Len(text) \in Nat /\ Len(tokens) \in Nat
      /\ Len(tokens) <= NumTokens
      /\ \A i \in Tokens : tokens[i].start \in Nat
  BY TokenFields DEF JsmnTypeOK
<1>2. text[1] = "{" /\ text[2] = "Prefix" /\ text[3] = "string"
  BY <1>1, TheAnswerFacts
<1>3. \A i \in Tokens : i \in Nat /\ 1 <= i /\ i <= tokens[i].start
  BY <1>1 DEF TreeInv, StartsInText, Tokens
<1>4. \A i, j \in Tokens : i < j => tokens[i].start < tokens[j].start
  BY DEF TreeInv, StartsInText
<1>5. 1 \in 1..Len(text) /\ 2 \in 1..Len(text) /\ 3 \in 1..Len(text)
  BY <1>1
<1>6. PICK a \in Tokens : tokens[a].start = 1
  BY <1>2, <1>5 DEF EveryLexeme, Openers
<1>7. PICK b \in Tokens : tokens[b].start = 2
  BY <1>2, <1>5 DEF EveryLexeme, Scalars
<1>8. PICK c \in Tokens : tokens[c].start = 3
  BY <1>2, <1>5 DEF EveryLexeme, Scalars
<1>9. a = 1
  BY <1>3, <1>6
<1>10. b = 2
  BY <1>3, <1>6, <1>7, <1>9
<1>11. c = 3
  BY <1>3, <1>6, <1>7, <1>8, <1>9, <1>10
<1>12. /\ 1 \in Tokens /\ 2 \in Tokens /\ 3 \in Tokens
       /\ tokens[1].start = 1 /\ tokens[2].start = 2 /\ tokens[3].start = 3
  BY <1>6, <1>7, <1>8, <1>9, <1>10, <1>11
<1>13. NumTokens \in Nat /\ 2 < NumTokens
  BY JsmnAssumption, AnswerAssumption
<1>14. 2 \in PrefixTokens /\ 1 \notin PrefixTokens
  BY <1>2, <1>12, <1>13 DEF PrefixTokens, Tokens
<1>15. \A j \in PrefixTokens : j \in Nat /\ 2 <= j
  BY <1>1, <1>14 DEF PrefixTokens
<1>16. ASSUME NEW i \in 1..NumTokens
       PROVE  Copies(i) <=> i = 3
  <2>1. i \in Nat
    OBVIOUS
  <2>2. CASE Copies(i)
    <3>1. i - 1 \in PrefixTokens /\ i - 1 <= 2
      BY <1>14, <2>2 DEF Copies
    <3>2. 2 <= i - 1
      BY <1>15, <3>1
    <3> QED
      BY <2>1, <2>2, <3>1, <3>2
  <2>3. CASE i = 3
    <3>1. i - 1 = 2
      BY <2>3
    <3> QED
      BY <1>14, <1>15, <2>3, <3>1 DEF Copies
  <2> QED
    BY <2>2, <2>3
<1> QED
  BY <1>12, <1>16

LEMMA AnswerStep ==
  ASSUME JsmnInv, JsmnNext
  PROVE  AnswerUnderstood'
<1>1. result = "none" /\ JsmnTypeOK /\ TreeInv /\ EveryLexeme
  BY DEF JsmnInv, JsmnNext, EndOfText, ParseLexeme, Working
<1>2. /\ text \in Seq(Lexemes) /\ Len(text) \in Nat /\ Len(tokens) \in Nat
      /\ Len(tokens) <= Len(text)
  BY <1>1, TokenFields DEF JsmnTypeOK, TreeInv, StartsInText
<1>3. CASE EndOfText
  <2>1. text' = text /\ tokens' = tokens
    BY <1>3 DEF EndOfText, Returns
  <2>2. result' = IF OpenTokens = {} THEN "SUCCESS" ELSE "PART"
    BY <1>3 DEF EndOfText, Returns
  <2>3. ASSUME Len(text) >= 4, SubSeq(text, 1, 4) = TheAnswer
        PROVE  tokens[3].start = 3 /\ \A i \in 1..NumTokens : Copies(i) <=> i = 3
    BY <1>1, <2>3, WholeAnswer
  <2>4. PrefixTokens' = PrefixTokens /\ \A i : Copies(i)' <=> Copies(i)
    BY <2>1 DEF PrefixTokens, Copies
  <2>5. ASSUME text = <<>>
        PROVE  result' = "SUCCESS" /\ PrefixTokens = {}
    <3>1. Len(text) = 0
      BY <2>5
    <3>2. 1..Len(tokens) = {}
      BY <1>2, <3>1
    <3> QED
      BY <2>2, <3>2 DEF OpenTokens, PrefixTokens
  <2>6. ASSUME text # <<>>, Len(text) < 4, text = SubSeq(TheAnswer, 1, Len(text))
        PROVE  result' = "PART"
    <3>1. 1 \in 1..Len(text)
      BY <1>2, <2>6
    <3>2. text[1] = "{" /\ \A p \in 1..Len(text) : text[p] \notin Closers
      BY <1>2, <2>6, <3>1, TheAnswerFacts DEF Closers
    <3>3. PICK i \in Tokens : tokens[i].start = 1
      BY <1>1, <3>1, <3>2 DEF EveryLexeme, Openers
    <3>4. Bracket(i)
      BY <1>1, <3>2, <3>3 DEF TreeInv, EndsInText, Scalars
    <3>5. ASSUME ~Open(i)
          PROVE  FALSE
      <4>1. /\ 1 < tokens[i].end /\ tokens[i].end <= Len(text) /\ tokens[i].end \in Nat
            /\ text[tokens[i].end] = Closer(tokens[i].type) /\ tokens[i].type \in Openers
        BY <1>1, <3>3, <3>4, <3>5, TokenFields DEF TreeInv, EndsInText, Bracket
      <4>2. tokens[i].end \in 1..Len(text)
        BY <1>2, <4>1
      <4> QED
        BY <3>2, <4>1, <4>2, Kinds
    <3> QED
      BY <1>1, <2>2, <3>3, <3>5, OpenFacts
  <2> QED
    BY <2>1, <2>2, <2>3, <2>4, <2>5, <2>6 DEF AnswerUnderstood
<1>4. ASSUME NEW lexeme \in Lexemes, ParseLexeme(lexeme)
      PROVE  AnswerUnderstood'
  <2>1. PICK m \in Nat :
          /\ m = Len(text) /\ text' \in Seq(Lexemes) /\ Len(text') = m + 1
          /\ text'[m + 1] = lexeme
    BY <1>1, <1>4, OneMoreLexeme
  <2>2. result' # "SUCCESS"
    BY <1>1, <1>4 DEF ParseLexeme, Opens, Closes, Unmatched, Scalar, BadCharacter, CutString,
                      NoMemory, Returns
  <2>3. ASSUME result' # "none", Len(text') < 4, text' = SubSeq(TheAnswer, 1, Len(text'))
        PROVE  FALSE
    <3>1. m + 1 \in 1..Len(text')
      BY <2>1
    <3>2. lexeme \in {"{", "Prefix", "string"}
      BY <2>1, <2>3, <3>1, TheAnswerFacts
    <3>3. NoMemory(lexeme)
      BY <1>1, <1>4, <2>3, <3>2 DEF ParseLexeme, Opens, Closes, Unmatched, Scalar, BadCharacter,
                                    CutString, Closers
    <3>4. Len(tokens) >= 3
      BY <3>3, AnswerAssumption DEF NoMemory
    <3> QED
      BY <1>2, <2>1, <2>3, <3>4
  <2> QED
    BY <2>2, <2>3 DEF AnswerUnderstood
<1> QED
  BY <1>3, <1>4 DEF JsmnNext

-----------------------------------------------------------------------------
\* Both parsers: a behavior parses a file or an answer.
ParsersInv == IniInv /\ JsmnInv

LEMMA IniStart == ParsersInit => IniInv
<1> SUFFICES ASSUME ParsersInit
             PROVE  IniInv
  OBVIOUS
<1>1. /\ lines = <<>> /\ Len(lines) = 0 /\ section = NoText /\ prev_name = NoText
      /\ iniError = 0 /\ cfg = [remotehost |-> NoText, remoteport |-> 0]
  BY DEF ParsersInit, IniInit
<1>2. IniTypeOK
  BY SMT, <1>1, IniAssumption, SixteenBits DEF IniTypeOK
<1>3. \A n : ~InSection(0, n) /\ ~NameOf(0, n)
  BY DEF InSection, NameOf
<1>4. ~HasName(1)
  BY DEF HasName
<1>5. SectionIsTheLast
  BY <1>1, <1>3, IniAssumption DEF SectionIsTheLast
<1>6. NameIsTheLast /\ NameIsKept
  BY <1>1, <1>4 DEF NameIsTheLast, NameIsKept
<1>7. ConfigAsWritten
  BY <1>1 DEF ConfigAsWritten, IsUnset
<1> QED
  BY <1>2, <1>5, <1>6, <1>7 DEF IniInv

LEMMA JsmnStart == ParsersInit => JsmnInv
<1> SUFFICES ASSUME ParsersInit
             PROVE  JsmnInv
  OBVIOUS
<1>1. /\ text = <<>> /\ Len(text) = 0 /\ tokens = <<>> /\ Len(tokens) = 0
      /\ toksuper = 0 /\ result = "none"
  BY DEF ParsersInit, JsmnInit
<1>2. JsmnTypeOK
  BY <1>1, JsmnAssumption DEF JsmnTypeOK
<1>3. Tokens = {} /\ OpenTokens = {}
  BY <1>1 DEF Tokens, OpenTokens
<1>4. TreeInv
  BY <1>1, <1>3 DEF TreeInv, StartsInText, EndsInText, Nested, SizesAreChildren, SuperIsInnermost
<1>5. EveryLexeme /\ MatchedAsParsed
  BY <1>1, <1>3 DEF EveryLexeme, MatchedAsParsed
<1>6. OpenInOrder
  <2>1. [a \in 1..0 |-> a] \in [1..0 -> OpenTokens]
    OBVIOUS
  <2>2. Lists([a \in 1..0 |-> a], 0, OpenTokens)
    BY <1>3, <2>1 DEF Lists, Ascending
  <2>3. 0 \in 0..Len(tokens)
    BY <1>1
  <2> QED
    BY <2>1, <2>2, <2>3 DEF OpenInOrder
<1>7. ResultIsRight /\ AnswerUnderstood
  BY <1>1 DEF ResultIsRight, AnswerUnderstood
<1> QED
  BY <1>2, <1>4, <1>5, <1>6, <1>7 DEF JsmnInv, Working

LEMMA IniUnchanged ==
  ASSUME IniInv, UNCHANGED iniVars
  PROVE  IniInv'
<1>1. /\ lines' = lines /\ section' = section /\ prev_name' = prev_name
      /\ iniError' = iniError /\ cfg' = cfg
  BY DEF iniVars
<1>2. IniTypeOK'
  BY <1>1 DEF IniInv, IniTypeOK
<1>3. SectionIsTheLast'
  BY <1>1 DEF IniInv, SectionIsTheLast, InSection, LineIs, Continued, HasName
<1>4. NameIsTheLast'
  BY <1>1 DEF IniInv, NameIsTheLast, NameOf, LineIs, Continued, HasName
<1>5. NameIsKept'
  BY <1>1 DEF IniInv, NameIsKept, HasName
<1>6. ConfigAsWritten'
  <2>1. /\ \A i, o : Assigns(i, o)' <=> Assigns(i, o)
        /\ \A i, kind : LineIs(i, kind)' <=> LineIs(i, kind)
        /\ \A i : Assigned(i)' = Assigned(i)
    BY <1>1 DEF Assigns, Assigned, InSection, NameOf, LineIs, Continued, HasName
  <2>2. \A o : /\ IsUnset(o)' <=> IsUnset(o)
              /\ \A i : IsSetTo(o, Assigned(i))' <=> IsSetTo(o, Assigned(i))
    BY <1>1, <2>1 DEF IsSetTo, IsUnset
  <2> QED
    BY <1>1, <2>1, <2>2 DEF IniInv, ConfigAsWritten
<1> QED
  BY <1>2, <1>3, <1>4, <1>5, <1>6 DEF IniInv

LEMMA JsmnUnchanged ==
  ASSUME JsmnInv, UNCHANGED jsmnVars
  PROVE  JsmnInv'
<1>1. text' = text /\ tokens' = tokens /\ toksuper' = toksuper /\ result' = result
  BY DEF jsmnVars
<1>2. JsmnTypeOK'
  BY <1>1 DEF JsmnInv, JsmnTypeOK
<1>3. /\ Tokens' = Tokens /\ OpenTokens' = OpenTokens
      /\ \A i : (Bracket(i)' <=> Bracket(i)) /\ (Open(i)' <=> Open(i))
      /\ \A i, j : Encloses(i, j)' <=> Encloses(i, j)
      /\ \A i, j : Parent(i, j)' <=> Parent(i, j)
  BY <1>1 DEF Tokens, OpenTokens, Bracket, Open, Encloses, Parent
<1>4. (StartsInText /\ EndsInText /\ Nested)'
  BY <1>1, <1>3 DEF JsmnInv, TreeInv, StartsInText, EndsInText, Nested
<1>5. (SizesAreChildren /\ SuperIsInnermost)'
  BY <1>1 DEF JsmnInv, TreeInv, SizesAreChildren, SuperIsInnermost, Tokens, Bracket, OpenTokens,
              Open, Encloses, Parent
<1>6. EveryLexeme' <=> EveryLexeme
  BY <1>1 DEF EveryLexeme, Tokens, Bracket
<1>7. OpenInOrder' <=> OpenInOrder
  BY <1>1 DEF OpenInOrder, OpenTokens, Open
<1>8. MatchedAsParsed' <=> MatchedAsParsed
  BY <1>1 DEF MatchedAsParsed, Tokens, Bracket, Open
<1>9. Working'
  BY <1>1, <1>6, <1>7, <1>8 DEF JsmnInv, Working
<1>10. ResultIsRight'
  BY <1>1 DEF JsmnInv, ResultIsRight
<1>11. AnswerUnderstood'
  BY <1>1 DEF JsmnInv, AnswerUnderstood, Copies, PrefixTokens
<1> QED
  BY <1>2, <1>4, <1>5, <1>9, <1>10, <1>11 DEF JsmnInv, TreeInv

LEMMA JsmnStep ==
  ASSUME JsmnInv, JsmnNext
  PROVE  JsmnInv'
<1>1. /\ result = "none" /\ JsmnTypeOK /\ TreeInv
      /\ EveryLexeme /\ OpenInOrder /\ MatchedAsParsed
  BY DEF JsmnInv, JsmnNext, EndOfText, ParseLexeme, Working
<1>2. JsmnTypeOK' /\ TreeInv'
  BY <1>1, JsmnTypeStep, TreeStep
<1>3. Working'
  BY <1>1, EveryLexemeStep, OpenInOrderStep, MatchedStep DEF Working
<1> QED
  BY <1>2, <1>3, ResultStep, AnswerStep DEF JsmnInv

\* The parsers keep what their results are computed from.
THEOREM ParsersInvariant == ParsersSpec => []ParsersInv
<1>1. ParsersInit => ParsersInv
  BY IniStart, JsmnStart DEF ParsersInv
<1>2. ParsersInv /\ [ParsersNext]_parserVars => ParsersInv'
  <2> SUFFICES ASSUME IniInv, JsmnInv, [ParsersNext]_parserVars
               PROVE  IniInv' /\ JsmnInv'
    BY DEF ParsersInv
  <2>1. CASE ParseFile
    BY <2>1, IniStep, JsmnUnchanged DEF ParseFile, IniNext
  <2>2. CASE ParseAnswer
    BY <2>2, JsmnStep, IniUnchanged DEF ParseAnswer
  <2>3. CASE UNCHANGED parserVars
    BY <2>3, JsmnUnchanged, IniUnchanged DEF parserVars
  <2> QED
    BY <2>1, <2>2, <2>3 DEF ParsersNext
<1> QED
  BY <1>1, <1>2, PTL DEF ParsersSpec

\* The parsers' variables keep their types: no token lies outside the text, toksuper
\* is 0 or a token, and there are never more tokens than the array of get_prefix
\* has (jsmn.c:5-32, client.c:184).
THEOREM ParsersTypeCorrect == ParsersSpec => []ParsersTypeOK
<1>1. ParsersInv => ParsersTypeOK
  BY DEF ParsersInv, IniInv, JsmnInv, ParsersTypeOK
<1> QED
  BY <1>1, ParsersInvariant, PTL

\* What ini_parse_file hands to config_handler sets the host to the text, and the
\* port to the number in sixteen bits, of the last line for it in the section
\* [client], and its error is the number of the first line that means nothing, in a file of any length (ini.c:61-176,
\* client.c:71-84).
THEOREM ConfigAsWrittenAlways == ParsersSpec => []ConfigAsWritten
<1>1. ParsersInv => ConfigAsWritten
  BY DEF ParsersInv, IniInv
<1> QED
  BY <1>1, ParsersInvariant, PTL

\* The tokens that jsmn_parse allocates are at every moment the tree of the text
\* read so far, with the sizes and the toksuper that belong to it (jsmn.c:146-203),
\* however deep the brackets are.
THEOREM TokensAreTheTreeAlways == ParsersSpec => []TokensAreTheTree
<1>1. ParsersInv => TokensAreTheTree
  <2> SUFFICES ASSUME JsmnTypeOK, TreeInv
               PROVE  TokensAreTheTree
    BY DEF ParsersInv, JsmnInv
  <2> USE DEF Tokens
  <2>1. \A i, j \in 1..Len(tokens) : i < j =>
          /\ tokens[i].start < tokens[j].start
          /\ Encloses(i, j) => Open(i) \/ (~Open(j) /\ tokens[j].end <= tokens[i].end)
    BY DEF TreeInv, StartsInText, Nested
  <2>2. \A i \in 1..Len(tokens) : tokens[i].type \in Openers =>
          /\ tokens[i].size = Cardinality({j \in 1..Len(tokens) : Parent(i, j)})
          /\ ~Open(i) => text[tokens[i].end] = Closer(text[tokens[i].start])
    BY DEF TreeInv, SizesAreChildren, EndsInText, Bracket
  <2> QED
    BY <2>1, <2>2 DEF TokensAreTheTree, TreeInv, SuperIsInnermost
<1> QED
  BY <1>1, ParsersInvariant, PTL

\* What jsmn_parse returns is true of the text: SUCCESS of well-formed ones, PART of
\* those that some brackets complete, INVAL of those that none do, and NOMEM of
\* those with more tokens than the array has (jsmn.h:19-28, jsmn.c:131-244).
THEOREM ResultIsRightAlways == ParsersSpec => []ResultIsRight
<1>1. ParsersInv => ResultIsRight
  BY DEF ParsersInv, JsmnInv
<1> QED
  BY <1>1, ParsersInvariant, PTL

\* get_prefix copies the prefix out of the server's answer, whatever comes behind it,
\* and takes a part of the answer for what it is (client.c:171-201).
THEOREM AnswerUnderstoodAlways == ParsersSpec => []AnswerUnderstood
<1>1. ParsersInv => AnswerUnderstood
  BY DEF ParsersInv, JsmnInv
<1> QED
  BY <1>1, ParsersInvariant, PTL
================================================================================

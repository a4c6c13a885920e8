----------------------------- MODULE PrefixManager -----------------------------
(***************************************************************************)
(* The tunnel server's prefix assignments: a map from client ids to /64    *)
(* prefixes, kept in memory and written to the assignments file on every   *)
(* request.  Prefixes are their numbers in the configured range.           *)
(*                                                                         *)
(* A file is the assignments last written to it and its length, counted in *)
(* assignments.  Each write starts at offset 0 and truncates nothing, so   *)
(* the text is JSON only if the last write was as long as the file.        *)
(***************************************************************************)
EXTENDS Naturals, FiniteSets

CONSTANTS
  Ids,           \* the unique ids of the clients
  PrefixCount,   \* how many /64 prefixes the configured range holds
  NoPrefix,      \* the id is not in the map
  FileLimit      \* how many assignments fit in the 12000 bytes that Create reads

Prefixes == 0..(PrefixCount - 1)

ASSUME PrefixAssumption ==
  /\ IsFiniteSet(Ids)
  /\ PrefixCount \in Nat
  /\ NoPrefix \notin Prefixes
  /\ FileLimit \in Nat

VARIABLES
  prefixes,     \* pm.prefixes: id -> prefix
  inuse,        \* pm.inuse: the prefixes marked as used
  prefixfile    \* the assignments file, [map, length]

prefixVars == <<prefixes, inuse, prefixfile>>

Assignments == [Ids -> Prefixes \cup {NoPrefix}]
NoAssignments == [i \in Ids |-> NoPrefix]
Assigned(map) == {i \in Ids : map[i] # NoPrefix}
PrefixesOf(map) == {map[i] : i \in Assigned(map)}

PrefixTypeOK ==
  /\ prefixes \in Assignments
  /\ inuse \in SUBSET Prefixes
  /\ prefixfile.map \in Assignments
  /\ prefixfile.length \in Nat

PrefixInit ==
  /\ prefixes = NoAssignments
  /\ inuse = {}
  /\ prefixfile = [map |-> NoAssignments, length |-> 0]

-----------------------------------------------------------------------------
\* What Unmarshal makes of the bytes read; its error is ignored.
Readable(file) == file.length = Cardinality(Assigned(file.map)) /\ file.length <= FileLimit
Read(file) == IF Readable(file) THEN file.map ELSE NoAssignments

\* Faulty variant: the prefixes read from the file are not marked as used.
CreateMarksNothing == prefixes' = Read(prefixfile) /\ inuse' = {} /\ UNCHANGED prefixfile

\* Create: load the assignments when the server starts.
Create ==
  /\ prefixes' = Read(prefixfile)
  /\ inuse' = PrefixesOf(Read(prefixfile))
  /\ UNCHANGED prefixfile

\* The end of getPrefix: seek to the start of the file and write the map.
Written(file, map) ==
  LET length == Cardinality(Assigned(map))
  IN  [map |-> map, length |-> IF file.length > length THEN file.length ELSE length]

Free == Prefixes \ inuse
OutOfPrefixes(i) == prefixes[i] = NoPrefix /\ Free = {}

\* The prefix getPrefix(i) returns: the one i has, or else the lowest free one.
IsPrefixFor(i, p) ==
  IF prefixes[i] # NoPrefix THEN p = prefixes[i] ELSE p \in Free /\ \A q \in Free : p <= q

\* Faulty variant: only memory is updated for a new client.
GetPrefixUnsaved(i, p) ==
  /\ IsPrefixFor(i, p)
  /\ prefixes' = [prefixes EXCEPT ![i] = p]
  /\ inuse' = inuse \cup {p}
  /\ UNCHANGED prefixfile

\* getPrefix(i) when it returns p.
getPrefix(i, p) ==
  /\ IsPrefixFor(i, p)
  /\ prefixes' = [prefixes EXCEPT ![i] = p]
  /\ inuse' = inuse \cup {p}
  /\ prefixfile' = Written(prefixfile, prefixes')
=============================================================================

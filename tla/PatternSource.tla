--------------------------- MODULE PatternSource ---------------------------
(***************************************************************************)
(* Patterns from source text (PatternBuf::parse, pattern.rs:335, and       *)
(* pattern!, which embeds the atoms and the projection the parser and the  *)
(* compiler made at build time).  Among the programs that are scanned are  *)
(* those of the source texts.                                              *)
(***************************************************************************)
EXTENDS PatternScan, PatternSyntax, PatternMeaning

CONSTANT Sources  \* the source texts examined: for each what it says, or why it is refused

\* What the parser makes of each source, and what the compiler makes of that.
Parsed == [source \in Sources |-> Parse(source.text)]

ParsedPrograms == {Parsed[source].atoms : source \in {s \in Sources : Parsed[s].fault = NoFault}}

\* The atoms of a source before finish trims them.
Untrimmed(source) == <<Save(0)>> \o Space(Sequence(Parser(source.text), SourceEnd)).atoms

ASSUME SourcesScanned == ParsedPrograms \subseteq Programs

-----------------------------------------------------------------------------
\* The sources whose program is scanned: none for a handmade one, several that differ only in what is trimmed.
Scanned == {source \in Sources : Parsed[source].fault = NoFault /\ Parsed[source].atoms = scanner.program}

NothingCaptured == matches = NoMatches /\ \A i \in DOMAIN saves : saves[i] = 0

\* The source says which captures its program makes and where it matches.  A text means what its
\* items mean, whatever the parser made of it, except that the movement at its end is dropped,
\* as trim does (syntax.rs:555): that loses no match, and admits some at the end of an image
\* (TrimmedMovementIrrelevant).
\* A text that is refused is refused for what is wrong with it, and what the macro derives passes
\* the assertion in from_static_parts (pattern.rs:233) in the program that uses it.
SourceMeant ==
  NothingCaptured =>
    \A source \in Sources :
      /\ Parsed[source].fault = source.fault
      /\ source \in Scanned =>
           /\ Compile(scanner.program) # <<>> => ValidFor(scanner.program, Compile(scanner.program))
           /\ \A start \in 0 .. Len(image) :
                LET run  == Exec(scan, start, saves)
                    says == MeansAt(scan, Essential(source.says), start)
                IN /\ run.ok = says.ok
                   /\ MeansAt(scan, source.says, start).ok => run.ok
                   /\ says.ok => \A slot \in DOMAIN says.saves :
                                  /\ slot < SaveLen(scanner.program)
                                  /\ slot < Len(saves) => run.saves[slot + 1] = says.saves[slot]

\* What trim drops never decided whether a source matches (syntax.rs:554: "Remove terminal
\* unconstrained movement that cannot affect acceptance").
TrimmedMovementIrrelevant ==
  NothingCaptured =>
    \A source \in Scanned, start \in 0 .. Len(image) :
      Exec(scan, start, saves).ok = Exec([scan EXCEPT !.program = Untrimmed(source)], start, saves).ok

\* Every subpattern of a source that is scanned was closed (syntax.rs:196: "Parse one sequence
\* until the requested closing delimiter or source end", and at the source's end it is refused).
SubpatternsClosed ==
  \A source \in Scanned :
    LET Places(c) == {i \in DOMAIN source.text : source.text[i] = c}
    IN Cardinality(Places("{")) = Cardinality(Places("}"))
=============================================================================

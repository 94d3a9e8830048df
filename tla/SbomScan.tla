------------------------------ MODULE SbomScan ------------------------------
(***************************************************************************)
(* The SBOM scanner: it walks a directory, parses each manifest or lock    *)
(* file that it knows and collects the components, each one once.  A file  *)
(* is its name, the directories above it and its lines; a line is its kind *)
(* with the name, the version and the group that it holds.  The tree is    *)
(* what can be read: the walk passes over a directory or file that cannot, *)
(* and a path that is not there is an error and no list.                   *)
(***************************************************************************)
EXTENDS Ordered

CONSTANTS
  Files,     \* the files that may lie in the tree
  MaxFiles   \* bound on their number

VARIABLES
  tree,      \* the files, in the order of the walk
  sbom       \* the answer of the last scan: components and their total

sbomVars == <<tree, sbom>>
Init == tree = <<>> /\ sbom = [components |-> <<>>, total |-> 0]

\* A name is the sequence of its parts; those of Maven and Gradle begin with the group.
Component(name, version, type) == [name |-> name, version |-> version, type |-> type]
Library(l) == Component(<<l.name>>, l.version, "library")

\* Some of the lines, each one a component by itself.
EachAt(lines, I, Parse(_)) ==
  LET at == InOrder(I, Len(lines)) IN [p \in DOMAIN at |-> Parse(lines[at[p]])]
EachLine(lines, Kinds, Parse(_)) == EachAt(lines, {i \in DOMAIN lines : lines[i].kind \in Kinds}, Parse)

\* Fault: a component is known by its name.
KeyOfName(c) == c.name
Key(c) == <<c.name, c.version>>
\* The components found so far, and the first one of each other key.
Distinct(known, cs) ==
  FoldLeft(LAMBDA found, c :
             IF \E i \in DOMAIN found : Key(found[i]) = Key(c) THEN found ELSE Append(found, c),
           known, cs)

-----------------------------------------------------------------------------
\* Requirements in one line are not in a block and are left out; a comment in
\* the block has words as well and is taken for one.
parseGoMod(lines) ==
  LET InRequire(i) ==
        \E o \in 1 .. i - 1 : lines[o].kind = "require (" /\ \A j \in o + 1 .. i - 1 : lines[j].kind # ")"
      named == {i \in DOMAIN lines : \/ lines[i].kind \in {"words", "comment"} /\ InRequire(i)
                                    \/ lines[i].kind = "go"}
  IN  EachAt(lines, named,
             LAMBDA l : IF l.kind = "go" THEN Component(<<"go">>, l.version, "language") ELSE Library(l))

\* The application first, then the two maps in any order.
parsePackageJSON(lines) ==
  EachLine(lines, {"application"}, LAMBDA l : Component(<<l.name>>, l.version, "application"))
  \o EachLine(lines, {"dependency", "devDependency"}, Library)

parseRequirementsTxt(lines) == EachLine(lines, {"words"}, Library)

\* The section [dependencies] alone: the next section ends the reading.
parseCargoToml(lines) ==
  LET InDeps(i) == \E o \in 1 .. i - 1 : lines[o].kind = "[dependencies]"
      Ended(i) == \E j \in 1 .. i - 1 : lines[j].kind = "[other]" /\ InDeps(j)
  IN  EachAt(lines, {i \in DOMAIN lines : lines[i].kind = "words" /\ InDeps(i) /\ ~Ended(i)}, Library)

\* The text between a start tag without attributes and its end tag.
extractXML(lines, tag) == EachLine(lines, {tag}, LAMBDA l : l.name)
\* The i-th artifact with the i-th version and group of the file, whichever
\* element they belong to; the first is taken for the project itself.
parsePomXML(lines) ==
  LET At(s, i) == IF i \in DOMAIN s THEN s[i] ELSE ""
      artifacts == extractXML(lines, "artifactId")
  IN  [i \in 1 .. (IF artifacts = <<>> THEN 0 ELSE Len(artifacts) - 1) |->
         Component(<<At(extractXML(lines, "groupId"), i + 1), artifacts[i + 1]>>,
                   At(extractXML(lines, "version"), i + 1), "library")]

parseGradle(lines) ==
  EachLine(lines, {"implementation"}, LAMBDA l : Component(<<l.group, l.name>>, l.version, "library"))
\* References carry attributes, and those of an element that has none are looked for
\* in its text.
parseCSProj(lines) == EachLine(lines, {"attributes as text"}, Library)
parseGemfile(lines) == EachLine(lines, {"gem"}, Library)
parseYarnLock(lines) == EachLine(lines, {"quoted"}, LAMBDA l : Library(l))
parseSolutionFile(lines) == EachLine(lines, {"Project("}, LAMBDA l : Component(<<l.name>>, "", "project"))

Lookahead == 10
Window(i) == i + 1 .. i + Lookahead - 1
\* Of each package the last name and the last version within the window, which
\* ends at a section but not at the next package.
parseCargoLock(lines) ==
  LET Stops(i) == {j \in Window(i) \cap DOMAIN lines : lines[j].kind = "[other]"}
      Looked(i) == {j \in Window(i) \cap DOMAIN lines : \A s \in Stops(i) : j < s}
      LastOf(i, kind) ==
        LET js == {j \in Looked(i) : lines[j].kind = kind}
        IN  IF js = {} THEN "" ELSE lines[CHOOSE j \in js : \A k \in js : k <= j].name
      named == {i \in DOMAIN lines : lines[i].kind = "[[package]]" /\ LastOf(i, "name") # ""}
      packages == InOrder(named, Len(lines))
  IN  [p \in DOMAIN packages |-> Component(<<LastOf(packages[p], "name")>>, LastOf(packages[p], "version"), "library")]

\* Both maps of the lock file; the same package is named by its path in one and
\* by its name in the other.
parsePackageLockJSON(lines) == Distinct(<<>>, EachLine(lines, {"package", "dependency"}, Library))

parseDepFile(f) ==
  CASE f.file = "go.mod" -> parseGoMod(f.lines)
    [] f.file = "package.json" -> parsePackageJSON(f.lines)
    [] f.file \in {"requirements.txt", "Pipfile"} -> parseRequirementsTxt(f.lines)
    [] f.file = "Cargo.toml" -> parseCargoToml(f.lines)
    [] f.file = "pom.xml" -> parsePomXML(f.lines)
    [] f.file \in {"build.gradle", "build.gradle.kts"} -> parseGradle(f.lines)
    [] f.file = ".csproj" -> parseCSProj(f.lines)
    [] f.file = "Gemfile" -> parseGemfile(f.lines)
    [] f.file \in {"cargo.lock", "Cargo.lock"} -> parseCargoLock(f.lines)
    [] f.file = "yarn.lock" -> parseYarnLock(f.lines)
    [] f.file = "package-lock.json" -> parsePackageLockJSON(f.lines)
    [] f.file = ".sln" -> parseSolutionFile(f.lines)
    [] OTHER -> <<>>

-----------------------------------------------------------------------------
SkippedDirs ==
  {"node_modules", ".git", "vendor", "__pycache__", ".next", "dist", "build", ".terraform"}

\* The first component of each key, in the order of the walk.
scanDirectory(files) ==
  LET components ==
        FoldLeft(LAMBDA found, f :
                   IF f.dirs \cap SkippedDirs = {} THEN Distinct(found, parseDepFile(f)) ELSE found,
                 <<>>, files)
  IN  [components |-> components, total |-> Len(components)]

\* A path that is a file is parsed alone, without looking for duplicates.
scanSingleFile(f) ==
  [components |-> parseDepFile(f), total |-> Len(parseDepFile(f))]

AddFile(f) ==
  /\ Len(tree) < MaxFiles /\ f \notin ToSet(tree)
  /\ tree' = Append(tree, f) /\ UNCHANGED sbom
ScanDirectoryForSBOM ==
  \/ sbom' = scanDirectory(tree) /\ UNCHANGED tree
  \/ \E i \in DOMAIN tree : sbom' = scanSingleFile(tree[i]) /\ UNCHANGED tree

Next == (\E f \in Files : AddFile(f)) \/ ScanDirectoryForSBOM
Spec == Init /\ [][Next]_sbomVars

-----------------------------------------------------------------------------
Identity(c) == <<c.name, c.version>>
(* sbom_scanner.go:37: the scan of a directory is exact.  It has every      *)
(* component of every file outside the skipped directories, none twice, and *)
(* two versions of one library as two components; the total counts them.    *)
ScanIsExact ==
  LET found == scanDirectory(tree)
      identities == {Identity(found.components[i]) : i \in DOMAIN found.components}
      parsed == UNION {ToSet(parseDepFile(f)) : f \in {g \in ToSet(tree) : g.dirs \cap SkippedDirs = {}}}
  IN  /\ identities = {Identity(c) : c \in parsed}
      /\ found.total = Cardinality(identities)

=============================================================================

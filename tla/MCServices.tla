----------------------------- MODULE MCServices -----------------------------
(* Services for TLC: the values of its constants that a .cfg cannot write. *)
EXTENDS Services, TLC

\* Names on both sides of every table of the three rule sets, and a hybrid.
MCAlgorithms ==
  {<<"RSA", "2048">>, <<"RSA", "1024">>, <<"ECDSA", "P256">>, <<"ECDH", "P384">>,
   <<"Ed25519">>, <<"AES", "128">>, <<"SLH", "DSA", "SHA2", "128s">>, <<"ML", "DSA", "65">>,
   <<"AES", "256", "GCM">>, <<"BLAKE2">>,
   <<"FALCON", "512">>, <<"ECDH", "P256", "ML", "KEM", "768">>}
\* Rows, and the clients that ask for them, differ in nothing but their identity.
MCSymmetry == Permutations(InvAssets) \cup Permutations(Clients)
\* A weak and an expired certificate.
MCPresented ==
  {[key |-> <<"RSA", 2048>>, signature |-> "SHA1-RSA", expired |-> TRUE],
   [key |-> <<"EC", 224>>, signature |-> "MD5-RSA", expired |-> FALSE]}
\* A file of every kind: package a in two versions, and b between them, whose block
\* has the source and the checksum of a registry; a skipped directory; one library
\* for Maven and for Gradle.
Line(kind, name, version) == [kind |-> kind, name |-> name, version |-> version, group |-> ""]
File(name, dirs, lines) == [file |-> name, dirs |-> dirs, lines |-> lines]
Package(name, version, rest) ==
  <<Line("[[package]]", "", ""), Line("name", name, ""), Line("version", version, "")>>
    \o [i \in 1 .. rest |-> Line("text", "", "")]
MCFiles == {
  File("go.mod", {}, <<Line("require (", "", ""), Line("words", "a", "1"), Line(")", "", ""),
                       Line("go", "", "1")>>),
  File("package.json", {"web"}, <<Line("dependency", "a", "2"), Line("application", "app", "1"),
                                  Line("devDependency", "b", "1")>>),
  File("requirements.txt", {}, <<Line("words", "a", "1"), Line("comment", "", ""),
                                 Line("words", "b", "2")>>),
  File("Cargo.toml", {}, <<Line("words", "x", "1"), Line("[dependencies]", "", ""),
                           Line("words", "a", "3"), Line("[other]", "", ""), Line("words", "y", "3")>>),
  File("pom.xml", {}, <<Line("artifactId", "p", "1"), Line("version", "1", ""), Line("groupId", "g", ""),
                        Line("artifactId", "a", ""), Line("groupId", "g", ""), Line("version", "1", "")>>),
  File("build.gradle", {}, <<[Line("implementation", "a", "1") EXCEPT !.group = "g"]>>),
  File("Gemfile", {"build"}, <<Line("gem", "a", "1")>>),
  File(".csproj", {}, <<Line("PackageReference", "a", "1")>>),
  File("yarn.lock", {}, <<Line("quoted", "b", "1")>>),
  File(".sln", {}, <<Line("Project(", "s", "")>>),
  File("package-lock.json", {}, <<Line("package", "a", "1"), Line("dependency", "a", "1")>>),
  File("Cargo.lock", {}, Package("a", "1", 7) \o Package("b", "1", 3) \o Package("a", "2", 3))}
=============================================================================

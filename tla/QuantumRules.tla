---------------------------- MODULE QuantumRules ----------------------------
(***************************************************************************)
(* The three judges of quantum risk: the migration report of the PQC       *)
(* service, the quantum scanner with its roadmap and local attestation,    *)
(* and the compliance engine.  Each has its own tables of algorithms and   *)
(* its own way to match a name against them.  The state is an estate of    *)
(* assets that grows and is migrated along the report's recommendations.   *)
(* A name is the sequence of its words: "ML-KEM-768" is <<"ML","KEM","768">>. *)
(***************************************************************************)
EXTENDS Integers, Ordered

CONSTANTS
  Algorithms,   \* the names that discovery reports, as sequences of words
  MaxEstate     \* bound on the assets of a tenant

VARIABLES
  estate,   \* sequence of assets: algorithm, and whether its data is worth harvesting
  keyPair   \* outcome of the last generation of a key pair

rulesVars == <<estate, keyPair>>
Init == estate = <<>> /\ keyPair = "none"

-----------------------------------------------------------------------------
(* The PQC service. *)
Vulnerable ==
  {<<"RSA", b>> : b \in {"1024", "2048", "3072", "4096"}} \cup
  {<<"ECDSA", c>> : c \in {"P256", "P384", "P521"}} \cup {<<"ECDH", c>> : c \in {"P256", "P384"}} \cup
  {<<"DSA", b>> : b \in {"1024", "2048"}} \cup {<<"DH", b>> : b \in {"1024", "2048", "3072"}} \cup
  {<<"Ed25519">>, <<"Ed448">>}
PqcSafe ==
  {<<"ML", "KEM", "768">>, <<"ML", "KEM", "1024">>, <<"ML", "DSA", "65">>, <<"ML", "DSA", "87">>,
   <<"SLH", "DSA", "SHA2", "128s">>, <<"AES", "256">>, <<"AES", "256", "GCM">>,
   <<"ChaCha20", "Poly1305">>, <<"SHA", "3", "256">>, <<"SHA", "3", "512">>, <<"BLAKE3">>}

AssessCryptoAsset(a) ==
  CASE a.algorithm \in PqcSafe -> "SAFE"
    [] a.algorithm \in Vulnerable -> IF a.harvest THEN "CRITICAL" ELSE "HIGH"
    [] a.algorithm \in {<<"AES", "128">>, <<"3DES">>} -> "MEDIUM"
    [] OTHER -> "LOW"

\* Fault: one classical curve is replaced by another.
TargetsOtherCurve(algorithm) ==
  IF algorithm = <<"ECDSA", "P256">> THEN {<<"ECDSA", "P384">>} ELSE {<<"ML", "KEM", "768">>}
\* The algorithms that the recommendation for this one names.
Targets(algorithm) ==
  CASE algorithm = <<"RSA", "2048">> -> {<<"ML", "KEM", "768">>, <<"ML", "DSA", "65">>}
    [] algorithm = <<"RSA", "4096">> -> {<<"ML", "KEM", "1024">>, <<"ML", "DSA", "87">>}
    [] algorithm \in {<<"ECDSA", "P256">>, <<"Ed25519">>} -> {<<"ML", "DSA", "65">>}
    [] algorithm = <<"ECDSA", "P384">> -> {<<"ML", "DSA", "87">>}
    [] algorithm = <<"ECDH", "P256">> -> {<<"ML", "KEM", "768">>}
    [] algorithm = <<"ECDH", "P384">> -> {<<"ML", "KEM", "1024">>}
    [] algorithm \in {<<"AES", "128">>, <<"3DES">>} -> {<<"AES", "256", "GCM">>}
    [] OTHER -> {<<"ML", "KEM", "768">>, <<"ML", "DSA", "65">>}

At(assets, risks) == {i \in DOMAIN assets : AssessCryptoAsset(assets[i]) \in risks}

\* In the order of the assets; an asset's place is its priority.
Recommendations(assets) ==
  LET flagged == InOrder(At(assets, {"CRITICAL", "HIGH"}), Len(assets))
  IN  [p \in DOMAIN flagged |->
         [priority |-> p, asset |-> flagged[p], targets |-> Targets(assets[flagged[p]].algorithm),
          effort |-> IF flagged[p] \in At(assets, {"CRITICAL"}) THEN "HIGH" ELSE "MEDIUM"]]

\* The safe assets are counted among those that are neither critical nor high
\* and a second time.  In whole percents.
ReadinessScore(assets) ==
  LET safeCount == Cardinality(At(assets, {"SAFE"}))
                   + Len(assets) - Cardinality(At(assets, {"CRITICAL", "HIGH"}))
  IN  IF assets = <<>> THEN 0 ELSE (100 * safeCount) \div Len(assets)

GenerateMigrationReport(assets) ==
  LET critical == Cardinality(At(assets, {"CRITICAL"}))
      score == ReadinessScore(assets)
  IN  [total |-> Len(assets), critical |-> critical,
       high |-> Cardinality(At(assets, {"HIGH"})), safe |-> Cardinality(At(assets, {"SAFE"})),
       score |-> score, recommendations |-> Recommendations(assets),
       bsi |-> critical = 0 /\ score >= 80, dora |-> critical = 0, eidas |-> score >= 90]

\* The client of the HSM returns neither entropy nor an error: the code that
\* asks for it dereferences nil and never falls back to the local source.
GenerateHSMEntropy == [result |-> "nil", error |-> FALSE]
GenerateKeyPair(hsmSeed, hsmClient) ==
  /\ keyPair' = IF hsmSeed /\ hsmClient /\ ~GenerateHSMEntropy.error
                THEN IF GenerateHSMEntropy.result = "nil" THEN "panic" ELSE "from HSM"
                ELSE "from rand"
  /\ UNCHANGED estate

-----------------------------------------------------------------------------
(* The quantum scanner matches the first word of its table's names anywhere *)
(* in the asset's name.                                                     *)
Holds(word, part) == word = part \/ <<part, word>> \in {<<"DH", "ECDH">>, <<"DSA", "ECDSA">>}
Mentions(name, part) == \E i \in DOMAIN name : Holds(name[i], part)

KnownVulnerable == << <<"RSA", "2048">>, <<"RSA", "3072">>, <<"ECDSA", "P256">>, <<"ECDH", "P256">>,
                      <<"DH", "2048">> >>
KnownSafe == << <<"ML", "KEM", "768">>, <<"ML", "KEM", "1024">>, <<"ML", "DSA", "65">>,
                <<"ML", "DSA", "87">>, <<"SLH", "DSA", "SHA2", "128s">>, <<"FALCON", "512">>,
                <<"Classic", "McEliece", "348864">>, <<"AES", "256">> >>

DetectPQCAlgorithms(names) ==
  {k \in DOMAIN KnownSafe : \E n \in names : \E i \in 1 .. Len(n) + 1 - Len(KnownSafe[k]) :
     SubSeq(n, i, i + Len(KnownSafe[k]) - 1) = KnownSafe[k]}

Matches(names, table) ==
  Cardinality({m \in (DOMAIN names) \X (DOMAIN table) : Mentions(names[m[1]], table[m[2]][1])})
\* Each entry of a table that matches a name counts.
AssessAsset(names) ==
  LET v == Matches(names, KnownVulnerable)
      score == IF v = 0 THEN 0 ELSE (100 * v) \div (v + Matches(names, KnownSafe) + 1)
  IN  [score |-> score,
       level |-> CASE score >= 80 -> "CRITICAL" [] score >= 60 -> "HIGH"
                   [] score >= 30 -> "MEDIUM" [] score > 0 -> "LOW" [] OTHER -> "SAFE",
       harvest |-> score >= 60]

GetMigrationRoadmap(reports) ==
  LET total == FoldLeft(LAMBDA sum, r : sum + r.score, 0, reports)
  IN  [overall |-> IF reports = <<>> THEN 0 ELSE 100 - (total \div Len(reports)),
       critical |-> Cardinality({i \in DOMAIN reports : reports[i].level = "CRITICAL"}),
       high |-> Cardinality({i \in DOMAIN reports : reports[i].level = "HIGH"}),
       steps |-> 1 .. 5]

\* LocalAttestationProvider, for one algorithm.
Attest(name) == [quantumSafe |-> AssessAsset(<<name>>).score < 30, score |-> AssessAsset(<<name>>).score]

-----------------------------------------------------------------------------
(* The compliance engine matches prefixes. *)
VulnerablePrefixes == {"RSA", "ECDSA", "ECDH", "DH", "DSA", "ELGAMAL"}
\* Fault: the words are looked for anywhere in the name.
IsQuantumVulnerableAnywhere(name) == \E p \in VulnerablePrefixes : Mentions(name, p)
IsQuantumVulnerable(name) == name[1] \in VulnerablePrefixes
Regulations == {"DORA", "NIS2", "NIST-CSF", "CRA", "ENISA"}
\* A vulnerable algorithm violates all of the frameworks.
Evaluate(name) ==
  LET violations ==
        IF ~IsQuantumVulnerable(name) THEN {}
        ELSE {[framework |-> f, severity |-> IF f \in {"NIST-CSF", "CRA"} THEN "MEDIUM" ELSE "HIGH"] :
                f \in Regulations}
  IN  [violations |-> violations, compliant |-> violations = {}]

-----------------------------------------------------------------------------
Discover(algorithm, harvest) ==
  /\ Len(estate) < MaxEstate
  /\ estate' = Append(estate, [algorithm |-> algorithm, harvest |-> harvest])
  /\ UNCHANGED keyPair
\* The owner of an asset follows one recommendation of the report.
Migrate(i, target) ==
  /\ \E p \in DOMAIN Recommendations(estate) :
        LET r == Recommendations(estate)[p] IN r.asset = i /\ target \in r.targets
  /\ estate' = [estate EXCEPT ![i].algorithm = target]
  /\ UNCHANGED keyPair

Next ==
  \/ \E a \in Algorithms, harvest \in BOOLEAN : Discover(a, harvest)
  \/ \E i \in DOMAIN estate, t \in PqcSafe \cup Vulnerable : Migrate(i, t)
  \/ \E hsmSeed, hsmClient \in BOOLEAN : GenerateKeyPair(hsmSeed, hsmClient)
Spec == Init /\ [][Next]_rulesVars

-----------------------------------------------------------------------------
Roadmap(assets) == GetMigrationRoadmap([i \in DOMAIN assets |-> AssessAsset(<<assets[i].algorithm>>)])
Violating(assets) == {i \in DOMAIN assets : ~Evaluate(assets[i].algorithm).compliant}

(* pqc_service.go, attestation.go, engine.go: following a recommendation    *)
(* pays before every judge.  The report recommends one thing less, its      *)
(* score does not fall and it loses no compliance; the roadmap's score does *)
(* not fall; and the engine finds no violation it did not find before.      *)
MigrationStepHelps(old, new) ==
  LET before == GenerateMigrationReport(old)
      after == GenerateMigrationReport(new)
  IN  /\ Len(after.recommendations) < Len(before.recommendations)
      /\ after.score >= before.score /\ Roadmap(new).overall >= Roadmap(old).overall
      /\ before.bsi => after.bsi
      /\ before.dora => after.dora
      /\ before.eidas => after.eidas
      /\ Violating(new) \subseteq Violating(old)
MigrationHelps ==
  [][Len(estate') = Len(estate) => MigrationStepHelps(estate, estate')]_estate

\* The k-th word names a classical algorithm; DSA does unless ML or SLH is before it.
Classical(name, k) ==
  \/ name[k] \in VulnerablePrefixes \ {"DSA"}
  \/ name[k] = "DSA" /\ (k = 1 \/ name[k - 1] \notin {"ML", "SLH"})
(* The three tables agree on what is safe: an asset that the PQC service    *)
(* takes for safe has no risk for the scanner, is attested as quantum safe  *)
(* and violates no framework, although the other two match parts of names.  *)
(* So is one in which the detection finds a post-quantum algorithm, unless  *)
(* it is a hybrid: its name has a classical algorithm as well.              *)
SafeForOneIsSafeForAll ==
  \A i \in DOMAIN estate :
     LET name == estate[i].algorithm
         detected == DetectPQCAlgorithms({name}) # {} /\ \A k \in DOMAIN name : ~Classical(name, k)
     IN  i \in At(estate, {"SAFE"}) \/ detected =>
           AssessAsset(<<name>>).level = "SAFE" /\ Attest(name).quantumSafe /\ Evaluate(name).compliant
=============================================================================

--------------------------- MODULE TargetFindings ---------------------------
(***************************************************************************)
(* What the three target scanners report of a server: the negotiated TLS   *)
(* session and its certificate, the host key and the key exchange of an    *)
(* SSH server, the headers of an HTTP answer.  ScanManager takes these     *)
(* findings as given.  A finding is a type and a severity.  The SSH        *)
(* scanner may connect twice, and the server can change in between.        *)
(***************************************************************************)
EXTENDS Naturals, FiniteSets

CONSTANTS
  KexOffers,    \* sets of key exchanges that an SSH server may offer
  HostKeys,     \* types of host keys
  Presented     \* the certificates that TLS servers present: key, signature, whether expired

VARIABLES
  probe,    \* the scan that runs: "none", "ssh banner" or "ssh drain"; the others are one step
  sshd,     \* the SSH server: its key exchanges, its host key, whether it lets a scanner log in
  keyRead,  \* the type of host key that the current handshake has read, or ""
  seen,     \* of the last session: what the server showed in it
  reported  \* the last scan: its protocol, its findings, and whether it failed

findVars == <<probe, sshd, keyRead, seen, reported>>

Servers == [kex : KexOffers, hostKey : HostKeys, letsIn : BOOLEAN]
Nothing == [of |-> "nothing"]
Init ==
  /\ probe = "none" /\ sshd \in Servers /\ keyRead = "" /\ seen = Nothing
  /\ reported = [protocol |-> "none", findings |-> {}, failed |-> FALSE]

Report(protocol, findings) ==
  reported' = [protocol |-> protocol, findings |-> findings, failed |-> FALSE]
Fail(protocol) == reported' = [protocol |-> protocol, findings |-> {}, failed |-> TRUE]
Finding(type, severity) == [type |-> type, severity |-> severity]

-----------------------------------------------------------------------------
(* TLS.  A cipher suite: key exchange, signature of the handshake, cipher   *)
(* and MAC; those of TLS 1.3 name a cipher alone.                           *)
Suite(kx, auth, cipher, mac) == [kx |-> kx, auth |-> auth, cipher |-> cipher, mac |-> mac]
Suites13 == {Suite("1.3", "1.3", c, "AEAD") : c \in {"AES128GCM", "AES256GCM", "CHACHA20"}}
Offered ==
  {Suite("RSA", "RSA", c, "SHA") : c \in {"RC4", "3DES", "AES128CBC", "AES256CBC"}} \cup
  {Suite("ECDHE", "RSA", c, "SHA") : c \in {"AES128CBC", "AES256CBC"}} \cup
  {Suite("ECDHE", "RSA", c, "AEAD") : c \in {"AES128GCM", "AES256GCM"}} \cup Suites13

\* Fault: the suites of the plain key exchange with AES are listed as well.
HasForwardSecrecyOfAES(s) == s.cipher \notin {"RC4", "3DES"}
\* A list of suites; those of ECDHE with RC4 and 3DES are not in it.
HasForwardSecrecy(s) ==
  s \in Suites13 \cup
        {Suite("ECDHE", auth, c, "SHA") : auth \in {"RSA", "ECDSA"}, c \in {"AES128CBC", "AES256CBC"}} \cup
        {Suite("ECDHE", auth, "AES128CBC", "SHA256") : auth \in {"RSA", "ECDSA"}} \cup
        {Suite("ECDHE", auth, c, "AEAD") :
            auth \in {"RSA", "ECDSA"}, c \in {"AES128GCM", "AES256GCM", "CHACHA20"}}
isRC4Cipher(s) ==
  s \in {Suite("RSA", "RSA", "RC4", "SHA"), Suite("ECDHE", "RSA", "RC4", "SHA"),
         Suite("ECDHE", "ECDSA", "RC4", "SHA")}
is3DESCipher(s) ==
  s \in {Suite("RSA", "RSA", "3DES", "SHA"), Suite("ECDHE", "RSA", "3DES", "SHA")}

\* The sessions that a server can agree to with what the scanner offers.
Sessions ==
  {x \in [version : {10, 11, 12, 13}, suite : Offered] :
     /\ x.version = 13 <=> x.suite \in Suites13
     /\ x.suite.mac = "AEAD" => x.version >= 12}

checkTLSVersion(x) ==
  CASE x.version \in {10, 11} -> {Finding("WEAK_TLS_VERSION", "CRITICAL")}
    [] x.version = 12 /\ ~HasForwardSecrecy(x.suite) -> {Finding("NO_FORWARD_SECRECY", "HIGH")}
    [] OTHER -> {}
checkCipherSuite(x) ==
  {f \in {Finding("WEAK_CIPHER_RC4", "CRITICAL")} : isRC4Cipher(x.suite)} \cup
  {f \in {Finding("WEAK_CIPHER_3DES", "CRITICAL")} : is3DESCipher(x.suite)}
checkCertificate(c) ==
  LET kind == c.key[1]
      bits == c.key[2]
  IN  {f \in {Finding("WEAK_KEY_RSA", "CRITICAL")} : kind = "RSA" /\ bits < 2048} \cup
      {f \in {Finding("RSA_2048_SUBOPTIMAL", "MEDIUM")} : kind = "RSA" /\ bits = 2048} \cup
      {f \in {Finding("WEAK_KEY_EC", "HIGH")} : kind = "EC" /\ bits < 256} \cup
      {f \in {Finding("WEAK_SIG_MD5", "CRITICAL")} : c.signature = "MD5-RSA"} \cup
      {f \in {Finding("WEAK_SIG_SHA1", "HIGH")} : c.signature \in {"SHA1-RSA", "SHA1-ECDSA"}} \cup
      {f \in {Finding("CERT_EXPIRED", "CRITICAL")} : c.expired}

\* One connection, whose state all three checks read; or none.
ScanTLS(x, c) ==
  /\ probe = "none"
  /\ x.version < 13 => c.key[1] = "RSA"      \* the suites offered below 1.3 need an RSA key
  /\ Report("tls", checkTLSVersion(x) \cup checkCipherSuite(x) \cup checkCertificate(c))
  /\ seen' = [of |-> "tls", session |-> x, certificate |-> c]
  /\ UNCHANGED <<probe, sshd, keyRead>>
TLSFails == probe = "none" /\ Fail("tls") /\ seen' = Nothing /\ UNCHANGED <<probe, sshd, keyRead>>

-----------------------------------------------------------------------------
(* HTTP. *)
Headers == {"Strict-Transport-Security", "X-Content-Type-Options", "X-Frame-Options"}
checkSecurityHeaders(headers) ==
  {f \in {Finding("MISSING_HSTS", "MEDIUM")} : "Strict-Transport-Security" \notin headers} \cup
  {f \in {Finding("MISSING_XCTO", "LOW")} : "X-Content-Type-Options" \notin headers} \cup
  {f \in {Finding("MISSING_XFO", "LOW")} : "X-Frame-Options" \notin headers}
\* The body is read up to its first 1024 bytes; whether it is 32 hexadecimal digits.
ScanHTTP(headers, isMD5) ==
  /\ probe = "none"
  /\ Report("http", checkSecurityHeaders(headers) \cup
                    {f \in {Finding("MD5_HASH_USAGE", "CRITICAL")} : isMD5})
  /\ seen' = Nothing /\ UNCHANGED <<probe, sshd, keyRead>>
HTTPFails == probe = "none" /\ Fail("http") /\ seen' = Nothing /\ UNCHANGED <<probe, sshd, keyRead>>

-----------------------------------------------------------------------------
(* SSH. *)
ScanKex == {"group1-sha1", "group14-sha1", "group14-sha256", "group16-sha512", "nistp256", "curve25519"}
BannerKex == ScanKex \ {"group16-sha512"}

\* How a handshake ends: the key is read before the login is tried.
Handshakes(offer) ==
  {<<"refused", "">>} \cup
  (IF offer \cap sshd.kex = {} THEN {<<"no common kex", "">>}
   ELSE {<<"lost", "">>, <<"lost", sshd.hostKey>>, <<"no common host key", "">>} \cup
        (IF sshd.letsIn THEN {<<"in", sshd.hostKey>>} ELSE {<<"login", sshd.hostKey>>}))

checkHostKey(key) ==
  {f \in {Finding("WEAK_HOST_KEY_DSA", "CRITICAL")} : key = "ssh-dss"} \cup
  {f \in {Finding("RSA_HOST_KEY", "MEDIUM")} : key = "ssh-rsa"}
weakKEXFinding(kex) ==
  Finding("WEAK_SSH_KEX", IF kex = "group1-sha1" THEN "CRITICAL" ELSE "HIGH")

Shown(h) == [of |-> "ssh", kex |-> IF h[1] = "refused" THEN {} ELSE sshd.kex, key |-> h[2]]

\* The first connection.  A login that fails is what the scanner expects; when
\* it succeeds, the scanner drains the channels until the server hangs up.
ScanSSH ==
  /\ probe = "none"
  /\ \E h \in Handshakes(ScanKex) :
       /\ seen' = Shown(h)
       /\ CASE h[1] = "refused" -> Fail("ssh") /\ UNCHANGED <<probe, keyRead>>
            [] h[1] = "login" -> Report("ssh", checkHostKey(h[2])) /\ UNCHANGED <<probe, keyRead>>
            [] h[1] = "in" -> probe' = "ssh drain" /\ keyRead' = h[2] /\ UNCHANGED reported
            [] OTHER -> probe' = "ssh banner" /\ keyRead' = h[2] /\ UNCHANGED reported
  /\ UNCHANGED sshd
Drained ==
  /\ probe = "ssh drain" /\ probe' = "none" /\ keyRead' = ""
  /\ Report("ssh", checkHostKey(keyRead))
  /\ UNCHANGED <<sshd, seen>>

\* The text of the error of a failed negotiation lists what the scanner itself
\* offered, and "group1" is in each of its three names of groups.
MentionsGroup1(h) == h[1] = "no common kex"
\* The second connection, with a variable of its own for the key.
scanBanner ==
  /\ probe = "ssh banner" /\ probe' = "none" /\ keyRead' = ""
  /\ \E h \in Handshakes(BannerKex) :
       /\ seen' = Shown(h)
       /\ IF h[1] = "refused" THEN Fail("ssh")
          ELSE Report("ssh", checkHostKey(h[2]) \cup
                             {f \in {weakKEXFinding("group1-sha1")} : MentionsGroup1(h)})
  /\ UNCHANGED sshd

\* The server is reconfigured, between two connections of a scan as well.
Reconfigured == sshd' \in Servers /\ UNCHANGED <<probe, keyRead, seen, reported>>

Next ==
  \/ \E x \in Sessions, c \in Presented : ScanTLS(x, c)
  \/ TLSFails
  \/ \E headers \in SUBSET Headers, isMD5 \in BOOLEAN : ScanHTTP(headers, isMD5)
  \/ HTTPFails \/ ScanSSH \/ Drained \/ scanBanner \/ Reconfigured
Spec == Init /\ [][Next]_findVars

-----------------------------------------------------------------------------
Types == {f.type : f \in reported.findings}

(* tls_scanner.go: the lists of suites say what the suites are.  Of every   *)
(* session that can be agreed with the suites on offer, a missing forward   *)
(* secrecy, RC4 and 3DES are reported exactly when the session has them, or *)
(* when its version alone is reported as critical.                          *)
SessionsJudged ==
  reported.protocol = "tls" /\ ~reported.failed /\ probe = "none" =>
    LET x == seen.session
    IN  /\ ("NO_FORWARD_SECRECY" \in Types \/ "WEAK_TLS_VERSION" \in Types)
             <=> (x.suite.kx = "RSA" \/ x.version < 12)
        /\ "WEAK_CIPHER_RC4" \in Types <=> x.suite.cipher = "RC4"
        /\ "WEAK_CIPHER_3DES" \in Types <=> x.suite.cipher = "3DES"

(* ssh_scanner.go:211, of the evidence of the finding: "SSH KEX algorithm   *)
(* offered: diffie-hellman-group1-sha1"; a server of which this is reported *)
(* offered that key exchange.                                               *)
WeakKexWasOffered ==
  reported.protocol = "ssh" /\ "WEAK_SSH_KEX" \in Types /\ probe = "none"
     => "group1-sha1" \in seen.kex
=============================================================================

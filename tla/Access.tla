------------------------------- MODULE Access -------------------------------
(***************************************************************************)
(* Who gets past a listener: its TLS handshake, the SPIFFE identity of the *)
(* client certificate, the role that role_mapping gives it, and which      *)
(* routes ask for one.  No variables.                                      *)
(*                                                                         *)
(* A certificate is whether its chain verifies against the listener's      *)
(* client CA, and its URI SANs.  A SPIFFE ID is the sequence of its parts, *)
(* so that a prefix may end inside a path segment.  A caller presents a    *)
(* set of at most one certificate.                                         *)
(***************************************************************************)
EXTENDS Configuration

Certificate ==
  [ trusted : BOOLEAN,
    uris    : Seq([scheme : STRING, host : STRING, path : Seq(STRING)]) ]

ClientCA(c, listener) == c[<<TLSSection[listener], "client_ca_file">>]
ServerCert(c, listener) == c[<<TLSSection[listener], "cert_file">>]

-----------------------------------------------------------------------------
(* Identity and role.                                                      *)

\* Exactly one URI SAN, with scheme spiffe, a trust domain and a path.
FromCert(cert) ==
  {<<"spiffe://", u.host>> \o u.path :
     u \in {x \in Range(cert.uris) :
              /\ Len(cert.uris) = 1
              /\ x.scheme = "spiffe" /\ x.host # "" /\ x.path # << >>}}

\* full[:len(r.SpiffeID)] == r.SpiffeID
HasPrefix(s, prefix) ==
  Len(prefix) <= Len(s) /\ SubSeq(s, 1, Len(prefix)) = prefix

\* Mutant of ResolveRole: the first rule that matches in any way.
ResolveRoleInOrder(id, rules, defaultRole) ==
  LET matching == {i \in DOMAIN rules :
                     IF rules[i].match = "exact" THEN rules[i].spiffe_id = id
                     ELSE HasPrefix(id, rules[i].spiffe_id)}
  IN  IF matching # {} THEN rules[Min(matching)].role ELSE defaultRole

\* Two loops over the rules, each of which returns at its first match.
ResolveRole(id, rules, defaultRole) ==
  LET exact  == {i \in DOMAIN rules :
                   rules[i].match = "exact" /\ rules[i].spiffe_id = id}
      prefix == {i \in DOMAIN rules :
                   rules[i].match = "prefix" /\ HasPrefix(id, rules[i].spiffe_id)}
  IN  IF exact # {} THEN rules[Min(exact)].role
      ELSE IF prefix # {} THEN rules[Min(prefix)].role
      ELSE defaultRole

-----------------------------------------------------------------------------
(* Handshake and routes.                                                   *)

\* Mutant of clientAuth: every listener insists on a certificate.
clientAuthStrict(listener) == "RequireAndVerifyClientCert"

\* Server.Start
clientAuth(listener) ==
  IF listener = "opamp" THEN "RequireAndVerifyClientCert"
  ELSE "VerifyClientCertIfGiven"

\* listenerTLSConfig: without a client CA no certificate is asked for.
Verifies(c, listener) ==
  ServerCert(c, listener) # "" /\ ClientCA(c, listener) # ""

Handshake(c, listener, certs) ==
  Verifies(c, listener) =>
    /\ \A cert \in certs : cert.trusted
    /\ clientAuth(listener) = "RequireAndVerifyClientCert" => certs # {}

PeerCertificates(c, listener, certs) == IF Verifies(c, listener) THEN certs ELSE {}

\* requireSPIFFERole: the role it attaches to the request; without one it
\* answers 403.
Granted(c, peer) ==
  {ResolveRole(id, c[RoleMapping], c[<<"auth", "default_role">>]) :
     id \in UNION {FromCert(cert) : cert \in peer}} \ {"", "none"}

Probes == {"/healthz", "/readyz"}

\* Server.New mounts probes and the OpAMP endpoint unwrapped.
Wrapped(c, listener, route) ==
  /\ ClientCA(c, listener) # ""
  /\ listener = "ui" \/ (listener = "telemetry" /\ route \notin Probes)

\* Whether a handler is mounted for the route; the UI's mux takes the rest.
Mounted(c, listener, route) ==
  \/ /\ listener = "telemetry"
     /\ \/ route \in Probes \cup {"/metrics", "/metrics/fleet"}
        \/ route = "/debug/pprof/" /\ c[PprofEnabled]
  \/ listener = "opamp" /\ route = "/v1/opamp"
  \/ listener = "ui"

\* The HTTP status of an answer; 0 if the handshake fails, 200 if the route's
\* own handler has it.
Status(c, ready, listener, route, certs) ==
  IF ~Handshake(c, listener, certs) THEN 0
  ELSE IF Mounted(c, listener, route) /\ Wrapped(c, listener, route)
          /\ Granted(c, PeerCertificates(c, listener, certs)) = {} THEN 403
  ELSE IF ~Mounted(c, listener, route)
    THEN IF listener = "opamp" THEN 501 ELSE 404
  ELSE IF ~ready /\ route = "/readyz" THEN 503
  ELSE 200
=============================================================================

---------------------------- MODULE MC_Validation ----------------------------
(***************************************************************************)
(* Checks ValidateServiceURL and ValidateNetworkIdentifier on every        *)
(* abstract input up to MaxLen bytes.                                      *)
(***************************************************************************)
EXTENDS Validation

CONSTANT MaxLen   \* longest input, in bytes

VARIABLES
    url,    \* the service URL a node stakes with
    chain   \* a network identifier

vars == <<url, chain>>

SchemeLen(s) == IF s = "https" THEN 5 ELSE IF s = "ftp" THEN 3 ELSE 4
HostLen(h)   == CASE h = "none" -> 0 [] h = "plain" -> 1 [] h = "dotted" -> 3
PortLen(p)   == CASE p = "none" -> 0 [] p = "big" -> 6 [] OTHER -> 2
TailLen(t)   == IF t = "none" THEN 0 ELSE 2

\* The shortest string with these features (a ':' and one character per
\* part, "a.b" for a dotted host, ":65536" for a big port).
MinLen(u) ==
    CASE u.kind = "empty" -> 0
      [] u.kind = "star"  -> 1
      [] u.kind \in {"path", "relative"} ->
            1 + TailLen(u.pathTail) + (IF u.pathDot THEN 1 ELSE 0)
      [] u.kind = "opaque" ->
            SchemeLen(u.scheme) + 2 + TailLen(u.pathTail) + (IF u.pathDot THEN 1 ELSE 0)
      [] u.kind = "authority" ->
            SchemeLen(u.scheme) + 3 + HostLen(u.host) + PortLen(u.hostPort)
              + (IF u.path THEN 1 ELSE 0) + TailLen(u.pathTail)
              + (IF u.pathDot THEN 1 ELSE 0)

\* The feature combinations a string can have.
Shaped(u) ==
    /\ u.kind # "authority" => u.host = "none" /\ u.hostPort = "none"
    /\ u.kind \in {"empty", "star"} =>
          u.pathTail = "none" /\ ~u.pathDot /\ u.scheme = "http"
    /\ u.kind \in {"path", "relative", "opaque", "empty", "star"} => ~u.path
    /\ u.kind = "authority" /\ ~u.path => u.pathTail = "none" /\ ~u.pathDot
    /\ u.kind \in {"path", "relative"} => u.scheme = "http"
    /\ u.len >= MinLen(u)
    /\ u.kind \in {"empty", "star"} => u.len = MinLen(u)

URLs ==
    { u \in [kind : Kinds, scheme : Schemes, host : Hosts, hostPort : PortTexts,
             path : BOOLEAN, pathTail : TailTexts, pathDot : BOOLEAN,
             len : 0..MaxLen] : Shaped(u) }

ChainIDs == { c \in [len : 0..6, hex : BOOLEAN] : c.len = 0 => c.hex }

Init == url \in URLs /\ chain \in ChainIDs

Next == UNCHANGED vars

\* Spec 2: a chain_id is hex-encoded, 1 to 2 bytes after decoding.
SpecChainID(c) == HexDecodeOK(c) /\ DecodedLength(c) \in 1..2

\* ValidateNetworkIdentifier accepts exactly the identifiers of spec 2: the
\* hex decoding, the empty check and the length bound together.
NetworkIdentifierMatchesSpec ==
    (ValidateNetworkIdentifier(chain) = "OK") <=> SpecChainID(chain)

\* ValidateServiceURL returns an sdk.Error for a URL it rejects; it never
\* panics (its u[:8] slice runs on whatever ParseRequestURI accepted).
ServiceURLNeverPanics == ValidateServiceURL(url) # "Panic"

=============================================================================

----------------------------- MODULE Validation -----------------------------
(***************************************************************************)
(* The stateless input checks of part_000: ValidateServiceURL and          *)
(* ValidateNetworkIdentifier.                                              *)
(*                                                                         *)
(* A string is abstracted to the features the checks tell apart:           *)
(*                                                                         *)
(* A service URL is a record                                               *)
(*   kind     how url.ParseRequestURI reads it: "empty", "star" (the     *)
(*            asterisk),                                                   *)
(*            "path" (/...), "relative" (no scheme, no leading /),         *)
(*            "opaque" (scheme:rest) or "authority" (scheme://host...),    *)
(*   scheme   its scheme as written, in either case,                       *)
(*   host     "none", "plain" or "dotted" (a host with a '.'),             *)
(*   hostPort the text after a ':' in the host: "none", "digits" (at most  *)
(*            65535), "big" (digits above it) or "text",                   *)
(*   path     whether a /path follows the authority,                       *)
(*   pathTail the text after a ':' in the path: "none", "digits", "text",  *)
(*   pathDot  whether the path holds a '.',                                *)
(*   len      its length in bytes.                                         *)
(*                                                                         *)
(* A network identifier is a record [len, hex]: its length and whether     *)
(* every character is a hex digit.                                         *)
(***************************************************************************)
EXTENDS Integers

Kinds     == {"empty", "star", "path", "relative", "opaque", "authority"}
Schemes   == {"http", "https", "HTTP", "ftp"}
Hosts     == {"none", "plain", "dotted"}
PortTexts == {"none", "digits", "big", "text"}
TailTexts == {"none", "digits", "text"}

\* strings.ToLower(u): only the scheme's case is told apart.
ToLower(u) == [u EXCEPT !.scheme = IF @ = "HTTP" THEN "http" ELSE @]

(***************************************************************************)
(* url.ParseRequestURI: an empty string, or one without scheme that does   *)
(* not start with '/', is not a request URI; an authority's port must be   *)
(* digits (validPort).  Paths and opaque parts are not checked.            *)
(***************************************************************************)
ParseRequestURIOK(u) ==
    /\ u.kind \notin {"empty", "relative"}
    /\ u.kind = "authority" => u.hostPort # "text"

\* u[:8] != httpsPrefix && u[:7] != httpPrefix
HasHTTPPrefix(u) == u.kind = "authority" /\ u.scheme \in {"http", "https"}

\* The ':' characters of u: after the scheme, in the host, in the path.
Colons(u) ==
    (IF u.kind \in {"opaque", "authority"} THEN 1 ELSE 0)
  + (IF u.hostPort # "none" THEN 1 ELSE 0)
  + (IF u.pathTail # "none" THEN 1 ELSE 0)

(***************************************************************************)
(* strconv.Atoi(temp[2]) when strings.Split(u, ":") has three parts: the   *)
(* text after the second ':' runs to the end of u, the path included.      *)
(* The result is "text" (not an integer), "digits" or "big".               *)
(***************************************************************************)
ThirdPart(u) ==
    IF u.hostPort # "none"
    THEN IF u.path \/ u.hostPort = "text" THEN "text" ELSE u.hostPort
    ELSE u.pathTail

HasPeriod(u) == u.host = "dotted" \/ u.pathDot

(***************************************************************************)
(* ValidateServiceURL: the first failing check, in the code's order.       *)
(* u[:8] is evaluated before the && and panics on a string shorter than 8  *)
(* bytes.                                                                  *)
(***************************************************************************)
ValidateServiceURL(raw) ==
    LET u == ToLower(raw) IN
    CASE ~ParseRequestURIOK(u)     -> "ErrParse"
      [] u.len < 8                 -> "Panic"
      [] ~HasHTTPPrefix(u)         -> "ErrPrefix"
      [] Colons(u) # 2             -> "ErrNeedsPort"
      [] ThirdPart(u) = "text"     -> "ErrPortInteger"
      [] ThirdPart(u) = "big"      -> "ErrPortRange"
      [] ~HasPeriod(u)             -> "ErrPeriod"
      [] OTHER                     -> "OK"

\* NetworkIdentifierLength
NetworkIdentifierLength == 2

\* hex.DecodeString: an error on a non-hex character or an odd length,
\* else len / 2 bytes.
HexDecodeOK(c) == c.hex /\ c.len % 2 = 0
DecodedLength(c) == c.len \div 2

\* Mutant: the upper bound checked with >=.
ValidateNetworkIdentifierAtLimit(c) ==
    CASE ~HexDecodeOK(c)                               -> "ErrDecode"
      [] DecodedLength(c) = 0                          -> "ErrEmpty"
      [] DecodedLength(c) >= NetworkIdentifierLength   -> "ErrLength"
      [] OTHER                                         -> "OK"

\* ValidateNetworkIdentifier: decode, then reject 0 and > 2 bytes.
ValidateNetworkIdentifier(c) ==
    CASE ~HexDecodeOK(c)                               -> "ErrDecode"
      [] DecodedLength(c) = 0                          -> "ErrEmpty"
      [] DecodedLength(c) > NetworkIdentifierLength    -> "ErrLength"
      [] OTHER                                         -> "OK"

=============================================================================

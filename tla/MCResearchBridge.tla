--------------------------- MODULE MCResearchBridge ---------------------------
(***************************************************************************)
(* Instance of ResearchBridge for TLC: all bundles of at most MaxLength of     *)
(* nine kinds of sources, with two spellings of one url, one that differs only   *)
(* in its scheme, two IPv6 addresses that with and without a port read the same,   *)
(* and everything that is passed over or raises; two sources are kept of the four   *)
(* looked at.                                                                        *)
(***************************************************************************)
EXTENDS ResearchBridge

CONSTANT MaxLength

Source(scheme, host, port) ==
  [url |-> [scheme |-> scheme, host |-> host, port |-> port], queries_listed |-> TRUE]

MCSources ==
  { Source("http", "a.org", 0), Source("http", "A.ORG", 80), Source("https", "a.org", 0),
    Source("ftp", "a.org", 0), Source("http", "[::1]", 8080), Source("http", "[::1:8080]", 0),
    Source("http", "b.org", 99999),
    [Source("http", "b.org", 0) EXCEPT !.queries_listed = FALSE], NotADict }

MCBundles == UNION {[1..n -> MCSources] : n \in 0..MaxLength}

MCHosts == {"a.org", "A.ORG", "b.org", "[::1]", "[::1:8080]"}

(* No other host of these comes with a port, but for the one that raises. *)
MCNetloc == [host \in MCHosts, port \in {0, 8080, 99999} |->
  CASE <<host, port>> \in { <<"[::1]", 8080>>, <<"[::1:8080]", 0>> } -> "::1:8080"
    [] host = "A.ORG" -> "a.org"
    [] OTHER -> host]

MCReparsed == [netloc \in {"a.org", "b.org", "::1:8080"} |->
  IF netloc = "::1:8080" THEN NoHost ELSE netloc]
=============================================================================

---------------------------- MODULE ResearchBridge ----------------------------
(***************************************************************************)
(* What one call of build_research_state                                       *)
(* (src/parking/research_project_state_bridge.py) makes of a research bundle:   *)
(* the sources it keeps, as metadata for Project State.  A source is a url with  *)
(* its matched queries, or not a dict; titles, texts and scores are cut to their  *)
(* limits one by one and left out.                                               *)
(***************************************************************************)
EXTENDS Integers, Sequences, FiniteSets

CONSTANTS
  Bundles,      \* the lists of sources that research may hand over
  NotAList,     \* a bundle whose queries or sources cannot be sliced, as null
  NotADict,     \* a source that is not a dict
  Netloc,       \* a host and port joined: lower case, an IPv6 address without its
                \* brackets, and no port for 0
  Reparsed,     \* the host read back from a url with that in it
  NoHost, NoUrl,
  MaxSources    \* MAX_SOURCES

(* A list of sources has a length; nothing is assumed of what is in it. *)
ASSUME BundlesAssumption == \A b \in Bundles : Len(b) \in Nat

ASSUME MaxSourcesAssumption == MaxSources \in Nat

VARIABLES
  bundle,    \* the sources of the call
  position,  \* how many of them the loop has looked at
  safe,      \* the canonical urls of the sources kept
  outcome    \* running, or how the call ended: returned or raised

bridgeVars == <<bundle, position, safe, outcome>>

DefaultPort == [http |-> 80, https |-> 443]

(* canonical_http_url: scheme and host in lower case, no default port, and no     *)
(* url without a host or of another scheme; port 0 reads as none.  Host and port   *)
(* become one string, in which those of an IPv6 address cannot be told apart.       *)
CanonicalHttpUrl(url) ==
  IF url.scheme \notin DOMAIN DefaultPort \/ url.host = NoHost THEN NoUrl
  ELSE [scheme |-> url.scheme,
        netloc |-> Netloc[url.host, IF url.port = DefaultPort[url.scheme] THEN 0 ELSE url.port]]

(* Reading a port that is out of range raises, once scheme and host have passed. *)
PortRaises(url) ==
  /\ CanonicalHttpUrl(url) # NoUrl
  /\ url.port > 65535

BridgeInit ==
  /\ bundle \in Bundles \cup {NotAList}
  /\ position = 0
  /\ safe = << >>
  /\ outcome = "running"

End(how) == outcome' = how /\ UNCHANGED <<bundle, position, safe>>

(* Twice as many sources as can be kept are looked at. *)
Limit == IF Len(bundle) < 2 * MaxSources THEN Len(bundle) ELSE 2 * MaxSources

Looking ==
  /\ outcome = "running"
  /\ bundle # NotAList
  /\ position < Limit
  /\ Len(safe) < MaxSources

(* A faulty test, for the mutation runs: the url is compared as it came. *)
SeenAsItCame(source) == \E n \in 1..position : bundle[n] = source

Seen(source) == CanonicalHttpUrl(source.url) \in {safe[n] : n \in DOMAIN safe}

Usable(source) ==
  /\ source # NotADict
  /\ CanonicalHttpUrl(source.url) # NoUrl
  /\ ~ Seen(source)

(* One turn of the loop, for the next source: passed over, kept, or the end of    *)
(* the call, if its port or its queries cannot be read.                           *)
SkipSource ==
  /\ Looking
  /\ LET source == bundle[position + 1]
     IN  source # NotADict => ~ PortRaises(source.url) /\ ~ Usable(source)
  /\ position' = position + 1
  /\ UNCHANGED <<bundle, safe, outcome>>

KeepSource ==
  /\ Looking
  /\ LET source == bundle[position + 1]
     IN  /\ Usable(source) /\ ~ PortRaises(source.url) /\ source.queries_listed
         /\ safe' = Append(safe, CanonicalHttpUrl(source.url))
  /\ position' = position + 1
  /\ UNCHANGED <<bundle, outcome>>

RaiseInLoop ==
  /\ Looking
  /\ LET source == bundle[position + 1]
     IN  /\ source # NotADict
         /\ PortRaises(source.url) \/ (Usable(source) /\ ~ source.queries_listed)
  /\ End("raised")

(* The queries are sliced first, then the sources. *)
RaiseAtStart ==
  /\ outcome = "running"
  /\ bundle = NotAList
  /\ End("raised")

Hosts == {Reparsed[safe[n].netloc] : n \in DOMAIN safe}

(* The hosts are sorted to be counted, and no host cannot be sorted among others. *)
Finish ==
  /\ outcome = "running"
  /\ bundle # NotAList
  /\ ~ Looking
  /\ End(IF NoHost \in Hosts /\ Hosts # {NoHost} THEN "raised" ELSE "returned")

BridgeNext ==
  \/ SkipSource
  \/ KeepSource
  \/ RaiseInLoop
  \/ RaiseAtStart
  \/ Finish

BridgeSpec == BridgeInit /\ [][BridgeNext]_bridgeVars

-----------------------------------------------------------------------------

(* The first sources of each canonical url, by their positions. *)
CanonicalAt(n) ==
  IF bundle[n] = NotADict THEN NoUrl ELSE CanonicalHttpUrl(bundle[n].url)

Fresh == {n \in 1..Limit : CanonicalAt(n) # NoUrl /\ \A e \in 1..(n - 1) : CanonicalAt(e) # CanonicalAt(n)}

(* What is persisted is what research found: the sources kept are the first of    *)
(* each different canonical url, in the order of the bundle, as many as there are  *)
(* among those looked at up to the limit, and none is there under two spellings.    *)
(* Two IPv6 urls that canonical_http_url makes one are one here too.                 *)
SourcesFaithful ==
  outcome = "returned" =>
    /\ Len(safe) = IF Cardinality(Fresh) < MaxSources THEN Cardinality(Fresh) ELSE MaxSources
    /\ \A n \in Fresh :
         LET rank == Cardinality({e \in Fresh : e <= n})
         IN  rank <= Len(safe) => safe[rank] = CanonicalAt(n)

(* The docstring of build_research_state. *)
NeverRaises == outcome # "raised"
=============================================================================

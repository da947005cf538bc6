------------------------------ MODULE Services ------------------------------
(***************************************************************************)
(* The start descriptors of threads and, beside them, the plugins, the     *)
(* configuration parser, the URI decoder and the calls of ms_path, with    *)
(* constants and variables of their own.                                   *)
(***************************************************************************)
EXTENDS StartDescriptors, Sequences

CONSTANTS
  Libraries, MaxOpen,   \* ms_plugin
  MaxPath, MaxBuffer,   \* ms_path
  MaxText,              \* ms_config
  Letters,              \* characters that delimit nothing in a URI
  Words, Ports          \* the components of URIs

VARIABLES
  pOpened, pLoading, pPlugins, pDangling, pDown,
  fFirst, fSecond, fSize, fJunk, fBuffer, fCall, fInput, fResult,
  cText, cRead, cLine, cLength, cEntries, cState,
  uGiven, uData, uResult

Plugins == INSTANCE Plugin WITH
  opened <- pOpened, loading <- pLoading, plugins <- pPlugins,
  dangling <- pDangling, down <- pDown

Paths == INSTANCE Path WITH
  MaxSize <- MaxBuffer, first <- fFirst, second <- fSecond, size <- fSize, junk <- fJunk,
  buffer <- fBuffer, call <- fCall, input <- fInput, result <- fResult

Configuration == INSTANCE Config WITH
  text <- cText, read <- cRead, line <- cLine, length <- cLength,
  entries <- cEntries, state <- cState

Uris == INSTANCE Uri WITH given <- uGiven, data <- uData, result <- uResult

ASSUME ServicesAssumption ==
  /\ MaxOpen \in Nat
  /\ MaxPath \in Nat /\ MaxBuffer \in Nat /\ MaxText \in Nat
  /\ Letters \cap (Uris!Delimiters \cup Uris!Escapes \cup {"NULL"}) = {}
  /\ Words \subseteq Seq(Letters \cup Uris!Delimiters) \ {<< >>}
  /\ Ports \subseteq Seq(Uris!Digits) \ {<< >>}

(* A library is open for its plugins and loads: References of Plugin. *)
PluginReferences == Plugins!TypeOK /\ Plugins!References

(* One entry for every line that is one: EntriesMatch of Config. *)
ConfigMatches == Configuration!TypeOK /\ Configuration!EntriesMatch

(* Decoding gives a URI's components back: RoundTrip of Uri. *)
UriRoundTrip == Uris!TypeOK /\ Uris!RoundTrip

(* Paths come apart as they were joined: PathsExact and JoinSplits of Path. *)
PathsAgree == Paths!TypeOK /\ Paths!PathsExact /\ Paths!JoinSplits
=============================================================================

----------------------------- MODULE MCServices -----------------------------
(***************************************************************************)
(* The start descriptors of threads, the plugins, the configuration        *)
(* parser, the URI decoder and the paths, one at a time: a behaviour is    *)
(* that of the one subject names, the others stay in one initial state.    *)
(***************************************************************************)
EXTENDS Services

CONSTANTS lib1, lib2

VARIABLE subject

(* One word is a letter, one holds every delimiter. *)
MCWords == {<<"a">>, <<"a", ":", "/", "?", "#", "@">>}
MCPorts == {<<"8", "0">>}

pVars == <<pOpened, pLoading, pPlugins, pDangling, pDown>>
cVars == <<cText, cRead, cLine, cLength, cEntries, cState>>
uVars == <<uGiven, uData, uResult>>
fVars == <<fFirst, fSecond, fSize, fJunk, fBuffer, fCall, fInput, fResult>>

allVars == <<subject, vars, pVars, cVars, uVars, fVars>>

MCInit ==
  /\ subject \in {"spawn", "plugin", "config", "uri", "path"}
  /\ Init /\ (subject # "spawn" => windows /\ filled[0].name = Unnamed
                                /\ \A s \in Spawners : wants[s].name = Unnamed)
  /\ Plugins!Init
  /\ (subject = "config" \/ cText = << >>) /\ Configuration!Init
  /\ (subject = "uri" \/ uGiven = [f \in Uris!Fields |-> Uris!Null]) /\ Uris!Init
  /\ (subject = "path" \/ (fFirst = << >> /\ fSize = 1 /\ fJunk = "a")) /\ Paths!Init

MCNext ==
  /\ UNCHANGED subject
  /\ \/ subject = "spawn" /\ Next /\ UNCHANGED <<pVars, cVars, uVars, fVars>>
     \/ subject = "plugin" /\ Plugins!Next /\ UNCHANGED <<vars, cVars, uVars, fVars>>
     \/ subject = "config" /\ Configuration!Next /\ UNCHANGED <<vars, pVars, uVars, fVars>>
     \/ subject = "uri" /\ Uris!Next /\ UNCHANGED <<vars, pVars, cVars, fVars>>
     \/ subject = "path" /\ Paths!Next /\ UNCHANGED <<vars, pVars, cVars, uVars>>

(* Fairness of StartDescriptors. *)
MCFairness ==
  \A s \in Spawners :
    WF_allVars(subject = "spawn" /\ SpawnerStep(s) /\ UNCHANGED <<subject, pVars, cVars, uVars, fVars>>)

MCSpec == MCInit /\ [][MCNext]_allVars /\ MCFairness
=============================================================================

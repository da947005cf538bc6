------------------------------- MODULE Plugin -------------------------------
(***************************************************************************)
(* ms_plugin (src/src/plugin.c): a shared library that is opened, checked  *)
(* and asked to start.  The system counts how often a library is open; its *)
(* on_load may load further plugins before the load it belongs to ends.    *)
(***************************************************************************)
EXTENDS Naturals, Sequences, SequencesExt

CONSTANTS
  Libraries,   \* the files there are
  MaxOpen      \* bound on the references to a library and the loads under way

VARIABLES
  opened,    \* per library: the references the system counts
  loading,   \* the loads that are inside on_load, the innermost last
  plugins,   \* per library: the plugins callers got and have not unloaded
  dangling,  \* libraries callers were shown by a load that then failed
  down       \* TRUE when NULL was closed and the program did not survive it

vars == <<opened, loading, plugins, dangling, down>>

Init ==
  /\ opened = [l \in Libraries |-> 0]
  /\ loading = << >>
  /\ plugins = [l \in Libraries |-> 0]
  /\ dangling = {}
  /\ down = FALSE

-----------------------------------------------------------------------------
(***************************************************************************)
(* ms_plugin_load without a path or of a file that is no library.  On its  *)
(* way out it closes NULL, which a system may refuse or fall over.         *)
(***************************************************************************)
LoadNothing ==
  /\ ~ down
  /\ down' \in BOOLEAN
  /\ UNCHANGED <<opened, loading, plugins, dangling>>

(* No ms_plugin_get_def, no definition or another interface version. *)
LoadUnfit(l) ==
  /\ ~ down
  /\ opened[l] < MaxOpen
  /\ UNCHANGED vars

(* ms_plugin_load up to the call of on_load; *out_plugin is set by then. *)
LoadBegin(l) ==
  /\ ~ down
  /\ opened[l] < MaxOpen /\ Len(loading) < MaxOpen
  /\ opened' = [opened EXCEPT ![l] = @ + 1]
  /\ loading' = Append(loading, l)
  /\ UNCHANGED <<plugins, dangling, down>>

(* on_load returned true, or there is none. *)
LoadEnd ==
  /\ ~ down /\ loading # << >>
  /\ loading' = Front(loading)
  /\ plugins' = [plugins EXCEPT ![Last(loading)] = @ + 1]
  /\ UNCHANGED <<opened, dangling, down>>

(* Mutant: the library stays open. *)
KeptOpen(l) == opened

Closed(l) == [opened EXCEPT ![l] = @ - 1]

(* It returned false: the caller has the error and a handle that is closed. *)
LoadFailed ==
  /\ ~ down /\ loading # << >>
  /\ opened' = Closed(Last(loading))
  /\ loading' = Front(loading)
  /\ dangling' = dangling \cup {Last(loading)}
  /\ UNCHANGED <<plugins, down>>

(* ms_plugin_unload of a plugin that was loaded. *)
Unload(l) ==
  /\ ~ down
  /\ plugins[l] > 0
  /\ opened' = Closed(l)
  /\ plugins' = [plugins EXCEPT ![l] = @ - 1]
  /\ UNCHANGED <<loading, dangling, down>>

Next ==
  \/ LoadNothing
  \/ \E l \in Libraries : LoadUnfit(l) \/ LoadBegin(l) \/ Unload(l)
  \/ LoadEnd
  \/ LoadFailed

Spec == Init /\ [][Next]_vars

-----------------------------------------------------------------------------
TypeOK ==
  /\ opened \in [Libraries -> 0 .. MaxOpen]
  /\ loading \in Seq(Libraries)
  /\ plugins \in [Libraries -> 0 .. MaxOpen]
  /\ dangling \subseteq Libraries
  /\ down \in BOOLEAN

(***************************************************************************)
(* A library is open once for every plugin callers hold of it and every    *)
(* load under way, whatever loads failed or were nested in an on_load: no  *)
(* plugin a caller holds has been closed, and none stays open for nobody.  *)
(***************************************************************************)
References ==
  \A l \in Libraries :
    opened[l] = plugins[l] + Cardinality({i \in DOMAIN loading : loading[i] = l})
=============================================================================

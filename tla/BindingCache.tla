---------------------------- MODULE BindingCache ----------------------------
(***************************************************************************)
(* The caches of name bindings (src/src/binding_table.inl, name.inl and    *)
(* the hooks of dict.inl): a name remembers the value slot that a search   *)
(* of the dictionary stack found for it.  While main is alone the slot is  *)
(* kept in the name itself; from the first spawn to the last death every   *)
(* coroutine has a table of its own.                                       *)
(*                                                                         *)
(* A slot is the dictionary it is in, the name being known.                *)
(*                                                                         *)
(*   holds     dictionary -> name -> the entry: "none", "own" (in the      *)
(*             block of the dictionary), "grown" (in one added later),     *)
(*             "string" (keyed by the equal string), "unset" (a local that *)
(*             has no value yet)                                           *)
(*   dstack    coroutine -> its dictionaries above the permanent one       *)
(*   up, runs  the coroutines alive beside main; m_running_coroutine       *)
(*   single    Name::m_binding                                             *)
(*   table     coroutine -> name -> slot and level in m_binding_table      *)
(*   blev, bimage   m_curr_save_level (0 or 1), what a restore puts back   *)
(***************************************************************************)
EXTENDS Integers, Sequences, SequencesExt, FiniteSetsExt

CONSTANTS
  BNames, BDicts,  \* names; dictionaries a program may begin
  Frames,          \* those of them that are frames of |...| procs
  BCo,             \* coroutines to spawn
  MaxDicts,        \* bound: dictionaries on a stack
  NewKinds,        \* the kinds of entry programs create by put
  PersistNew,      \* do -persist operators create names inside a save?
  SharedStore      \* does store create names in dictionaries that others have begun?

LocalDict == "localdict"
MainCo == "main"
None == "none"

ASSUME BindAssumption ==
  /\ {LocalDict, None} \cap BDicts = {} /\ MainCo \notin BCo /\ Frames \subseteq BDicts
  /\ MaxDicts \in Nat /\ NewKinds \subseteq {"own", "grown", "string"} /\ {PersistNew, SharedStore} \subseteq BOOLEAN

VARIABLES holds, dstack, up, runs, single, table, blev, bimage

bindVars == <<holds, dstack, up, runs, single, table, blev, bimage>>

AllDicts == BDicts \cup {LocalDict}
AllCo == BCo \cup {MainCo}
NoBinding == [slot |-> None, lev |-> 0]
NoTable == [n \in BNames |-> NoBinding]

BindInit ==
  /\ holds = [d \in AllDicts |-> [n \in BNames |-> None]]
  /\ dstack = [c \in AllCo |-> << >>] /\ up = {} /\ runs = MainCo
  /\ single = [n \in BNames |-> None] /\ table = [c \in AllCo |-> NoTable]
  /\ blev = 0 /\ bimage = holds

-----------------------------------------------------------------------------
(* The caches *)

Alone == up = {}

\* cached_binding.
Cached(c, n) == IF Alone THEN single[n] ELSE table[c][n].slot

Found(d, n) == holds[d][n] \notin {None, "unset"}

\* name_lookup_in_stack: the topmost dictionary that has the name.
Search(c, n) ==
  LET s == << LocalDict >> \o dstack[c]
      at == {i \in DOMAIN s : Found(s[i], n)}
  IN  IF at = {} THEN None ELSE s[Max(at)]

\* set_name_binding.
SetBinding(n, d) ==
  IF Alone THEN single' = [single EXCEPT ![n] = d] /\ UNCHANGED table
  ELSE table' = [table EXCEPT ![runs][n] = [slot |-> d, lev |-> blev]] /\ UNCHANGED single

\* Mutant: only the running coroutine forgets the name.
ClearedHere(ns) ==
  IF Alone THEN single' = [n \in BNames |-> IF n \in ns THEN None ELSE single[n]] /\ UNCHANGED table
  ELSE /\ table' = [table EXCEPT ![runs] = [n \in BNames |-> IF n \in ns THEN NoBinding ELSE @[n]]]
       /\ UNCHANGED single

\* clear_name_binding and binding_remove_all_coroutines, for a set of names.
ClearBindings(ns) ==
  IF Alone THEN single' = [n \in BNames |-> IF n \in ns THEN None ELSE single[n]] /\ UNCHANGED table
  ELSE /\ table' = [c \in AllCo |-> [n \in BNames |-> IF n \in ns THEN NoBinding ELSE table[c][n]]]
       /\ UNCHANGED single

NameKeys(d) == {n \in BNames : holds[d][n] \in {"own", "grown", "unset"}}

\* The push hook, Dict::set_name_bindings, with the contents h of d.
set_name_bindings(d, h) ==
  IF Alone
  THEN /\ single' = [n \in BNames |-> IF h[n] \in {"own", "grown"} THEN d
                                      ELSE IF h[n] = "unset" THEN None ELSE single[n]]
       /\ UNCHANGED table
  ELSE /\ table' = [table EXCEPT ![runs] = [n \in BNames |-> IF h[n] \in {None, "string"} THEN @[n] ELSE NoBinding]]
       /\ UNCHANGED single

\* The pop hook, Dict::clear_name_bindings: by name, or every cached slot that
\* lies in the block of d.
clear_name_bindings(ds) ==
  IF Alone
  THEN /\ single' = [n \in BNames |-> IF \E d \in ds : n \in NameKeys(d) THEN None ELSE single[n]]
       /\ UNCHANGED table
  ELSE /\ table' = [c \in AllCo |-> [n \in BNames |->
                      IF table[c][n].slot \in ds /\ holds[table[c][n].slot][n] # "grown" THEN NoBinding ELSE table[c][n]]]
       /\ UNCHANGED single

-----------------------------------------------------------------------------
(* Operators of the running coroutine *)

\* name_search with nothing cached.
Lookup(n) ==
  /\ Cached(runs, n) = None /\ Search(runs, n) # None
  /\ SetBinding(n, Search(runs, n))
  /\ UNCHANGED <<holds, dstack, up, runs, blev, bimage>>

\* Dict::put without binding: def, put, update.
PutName(d, n, kind) ==
  LET key == IF holds[d][n] \in {None, "unset"} THEN kind ELSE holds[d][n]
  IN  /\ d \in Frames => \E c \in AllCo : d \in Range(dstack[c])
      /\ holds' = [holds EXCEPT ![d][n] = key]
      /\ IF key = "string" THEN UNCHANGED <<single, table>> ELSE ClearBindings({n})
      /\ UNCHANGED <<dstack, up, runs, blev, bimage>>

UndefName(d, n) ==
  /\ Found(d, n)
  /\ holds' = [holds EXCEPT ![d][n] = None]
  /\ IF holds[d][n] = "string" THEN UNCHANGED <<single, table>> ELSE ClearBindings({n})
  /\ UNCHANGED <<dstack, up, runs, blev, bimage>>

\* put_persist_or_create of a key that is not there.
PersistName(d, n) ==
  /\ PersistNew /\ blev > 0 /\ holds[d][n] = None /\ d \notin Frames
  /\ holds' = [holds EXCEPT ![d][n] = "grown"] /\ bimage' = [bimage EXCEPT ![d][n] = "grown"]
  /\ UNCHANGED <<dstack, up, runs, single, table, blev>>

\* def_target_dict: the topmost dictionary that is no frame.
Target == LET s == << LocalDict >> \o dstack[runs] IN s[Max({i \in DOMAIN s : s[i] \notin Frames})]

\* store: where the name is found, or a new entry in the target.
StoreName(n) ==
  LET d == IF Search(runs, n) # None THEN Search(runs, n) ELSE Target
  IN  /\ (~Found(d, n) /\ ~SharedStore) => \A c \in (up \cup {MainCo}) \ {runs} : d \notin Range(dstack[c])
      /\ holds' = [holds EXCEPT ![d][n] = IF Found(d, n) THEN @ ELSE "own"]
      /\ IF holds[d][n] = "string" THEN UNCHANGED <<single, table>> ELSE SetBinding(n, d)
      /\ UNCHANGED <<dstack, up, runs, blev, bimage>>

BeginDict(d) ==
  /\ Len(dstack[runs]) < MaxDicts /\ d \notin Frames
  /\ dstack' = [dstack EXCEPT ![runs] = Append(@, d)]
  /\ set_name_bindings(d, holds[d])
  /\ UNCHANGED <<holds, up, runs, blev, bimage>>

EndDict ==
  /\ dstack[runs] # << >> /\ Last(dstack[runs]) \notin Frames
  /\ dstack' = [dstack EXCEPT ![runs] = Front(@)]
  /\ clear_name_bindings({Last(dstack[runs])})
  /\ UNCHANGED <<holds, up, runs, blev, bimage>>

\* begin-locals: the parameters bound, the other locals without a value yet.
\* (Its puts clear the names for the others, whose frames they are not.)
BeginLocals(d, params, locals) ==
  /\ d \in Frames /\ \A c \in AllCo : d \notin Range(dstack[c])
  /\ params \cap locals = {} /\ params \cup locals # {} /\ Len(dstack[runs]) < MaxDicts
  /\ LET h == [n \in BNames |-> IF n \in params THEN "own" ELSE IF n \in locals THEN "unset" ELSE None]
     IN  holds' = [holds EXCEPT ![d] = h] /\ set_name_bindings(d, h)
  /\ dstack' = [dstack EXCEPT ![runs] = Append(@, d)]
  /\ UNCHANGED <<up, runs, blev, bimage>>

LocalDef(n) ==
  /\ dstack[runs] # << >> /\ Last(dstack[runs]) \in Frames
  /\ LET d == Last(dstack[runs])
     IN  holds' = [holds EXCEPT ![d][n] = "own"] /\ SetBinding(n, d)
  /\ UNCHANGED <<dstack, up, runs, blev, bimage>>

\* @end-locals, and the unwinding of an error: the frame is recycled.
EndLocals ==
  /\ dstack[runs] # << >> /\ Last(dstack[runs]) \in Frames
  /\ LET d == Last(dstack[runs])
     IN  clear_name_bindings({d}) /\ holds' = [holds EXCEPT ![d] = [n \in BNames |-> None]]
  /\ dstack' = [dstack EXCEPT ![runs] = Front(@)]
  /\ UNCHANGED <<up, runs, blev, bimage>>

-----------------------------------------------------------------------------
(* Coroutines, save and restore *)

\* on_first_spawn_transition.
Flushed == [n \in BNames |-> None]

SpawnCo(c) ==
  /\ c \in BCo \ up
  /\ single' = IF Alone THEN Flushed ELSE single
  /\ up' = up \cup {c}
  /\ UNCHANGED <<holds, dstack, runs, table, blev, bimage>>

SwitchTo(c) ==
  /\ c \in (up \cup {MainCo}) \ {runs}
  /\ runs' = c /\ UNCHANGED <<holds, dstack, up, single, table, blev, bimage>>

\* The running coroutine ends: its dictionaries are forgotten, its table
\* freed; with the last one goes main's table too.
CoDies ==
  /\ runs # MainCo
  /\ LET mine == Range(dstack[runs])
         forgot == [c \in AllCo |-> [n \in BNames |->
                      IF table[c][n].slot \in mine /\ holds[table[c][n].slot][n] # "grown" THEN NoBinding ELSE table[c][n]]]
     IN  /\ table' = IF up = {runs} THEN [c \in AllCo |-> NoTable] ELSE [forgot EXCEPT ![runs] = NoTable]
         /\ holds' = [d \in AllDicts |-> IF d \in mine \cap Frames THEN [n \in BNames |-> None] ELSE holds[d]]
  /\ dstack' = [dstack EXCEPT ![runs] = << >>]
  /\ up' = up \ {runs} /\ runs' = MainCo
  /\ UNCHANGED <<single, blev, bimage>>

SaveBindings ==
  /\ blev = 0 /\ blev' = 1 /\ bimage' = holds
  /\ \A d \in Frames, c \in AllCo : d \notin Range(dstack[c])
  /\ UNCHANGED <<holds, dstack, up, runs, single, table>>

\* flush_all_name_bindings, or binding_restore_all_coroutines: what was cached
\* at the level that goes is dropped.
RestoreBindings ==
  /\ blev = 1 /\ blev' = 0 /\ holds' = bimage
  /\ \A d \in Frames, c \in AllCo : d \notin Range(dstack[c])
  /\ IF Alone THEN single' = Flushed /\ UNCHANGED table
     ELSE /\ table' = [c \in AllCo |-> [n \in BNames |-> IF table[c][n].lev >= 1 THEN NoBinding ELSE table[c][n]]]
          /\ UNCHANGED single
  /\ UNCHANGED <<dstack, up, runs, bimage>>

BindNext ==
  \/ \E n \in BNames : Lookup(n) \/ StoreName(n) \/ LocalDef(n)
  \/ \E d \in AllDicts, n \in BNames : UndefName(d, n) \/ PersistName(d, n) \/ \E k \in NewKinds : PutName(d, n, k)
  \/ \E d \in BDicts : BeginDict(d) \/ \E p, l \in SUBSET BNames : BeginLocals(d, p, l)
  \/ EndDict \/ EndLocals \/ CoDies \/ SaveBindings \/ RestoreBindings
  \/ \E c \in AllCo : SpawnCo(c) \/ SwitchTo(c)

BindSpec == BindInit /\ [][BindNext]_bindVars

-----------------------------------------------------------------------------
(* Properties *)

\* A cached slot is the one a search of the dictionary stack would find now,
\* for every coroutine, whatever the others have defined, begun or ended.
CacheAgrees == \A c \in up \cup {MainCo}, n \in BNames : Cached(c, n) \in {None, Search(c, n)}

\* While there are tables the names hold nothing, and the other way round:
\* neither kind of cache outlives its era.
OneCacheAtATime == IF Alone THEN \A c \in AllCo : table[c] = NoTable ELSE \A n \in BNames : single[n] = None

\* A cached binding is the one a search would find, and caches of the two eras
\* never coexist.
BindingSound == CacheAgrees /\ OneCacheAtATime

=============================================================================

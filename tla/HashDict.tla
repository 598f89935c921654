------------------------------ MODULE HashDict ------------------------------
(***************************************************************************)
(* One dictionary or set (src/src/dict.inl): its hash chains, the pool of  *)
(* free entries, growth, the journaling of every change inside a save, the *)
(* -persist changes that are not journaled, and the for-all loops that     *)
(* stand on an entry while their body changes the table.                   *)
(*                                                                         *)
(* Entries are numbered in the order they were allocated.  An entry that a *)
(* -persist operator creates lives in global memory, any other beside its  *)
(* dictionary; both are numbers here.                                      *)
(*                                                                         *)
(*   ent       entry -> [next, key, val, kl, vl]; kl, vl are the levels    *)
(*             its key and its value were last written at                  *)
(*   head      m_buckets                                                   *)
(*   dpool     m_pool, the first free entry                                *)
(*   dlen, dmax, dlev   m_length, m_maxlength, m_dict_save_level           *)
(*   flags     SetFlag and DynamicFlag of m_access                         *)
(*   djour     per save in force its journal, newest entry first, and the  *)
(*             contents a restore owes: those at the save, with the later  *)
(*             -persist changes                                            *)
(*   loops     the for-all frames, innermost last: the entry delivered     *)
(*             last, its bucket, its key, and the keys that were there at  *)
(*             the start, still are, and have not been delivered           *)
(***************************************************************************)
EXTENDS Integers, Sequences, SequencesExt, FiniteSetsExt

CONSTANTS
  DKeys,
  DVals,           \* key -> the values put under it
  Hash,            \* key -> bucket, from 0
  Buckets,         \* m_bucket_count
  Capacity,        \* m_maxlength of a new table
  MaxEntries,      \* bound: entries ever allocated
  MaxSaves,        \* bound: nested saves
  MaxLog,          \* bound: journal entries of a save
  MaxLoops,        \* bound: nested loops
  PersistTouched,  \* are -persist operators used on a table a save in force has journaled?
  RemoveCurrent,   \* do loop bodies remove the key they were given?
  RestoreInLoop    \* do loop bodies restore to a save made inside the loop?

ASSUME DictAssumption == /\ \A k \in DKeys : Hash[k] \in 0..(Buckets - 1)
                         /\ Capacity \in Nat \ {0} /\ MaxEntries >= Capacity

VARIABLES ent, head, dpool, dlen, dmax, dlev, flags, djour, loops

dictVars == <<ent, head, dpool, dlen, dmax, dlev, flags, djour, loops>>
tableVars == <<ent, head, dpool, dlen, dmax, dlev, flags>>

Nul == 0
NoKey == "null"
NoVal == 0
SL == Len(djour)        \* m_curr_save_level
Entry(n, k, v, l) == [next |-> n, key |-> k, val |-> v, kl |-> l, vl |-> l]

\* init_dict_pool: n fresh entries after the first m, each linked to the next.
Fresh(m, n) == [i \in 1..n |-> Entry(IF i < n THEN m + i + 1 ELSE Nul, NoKey, NoVal, SL)]

DictInit ==
  /\ flags \in [set : BOOLEAN, dynamic : BOOLEAN]
  /\ djour = << >> /\ loops = << >>
  /\ ent = [i \in 1..Capacity |-> Entry(IF i < Capacity THEN i + 1 ELSE Nul, NoKey, NoVal, 0)]
  /\ head = [b \in 0..(Buckets - 1) |-> Nul]
  /\ dpool = 1 /\ dlen = 0 /\ dmax = Capacity /\ dlev = 0

-----------------------------------------------------------------------------
(* Chains *)

\* The entries of a list, in order (a list that runs in a circle is cut off).
Walk(first) ==
  LET step(s, i) == IF s = << >> THEN (IF first = Nul THEN s ELSE << first >>)
                    ELSE IF ent[Last(s)].next = Nul \/ Len(s) >= i THEN s
                    ELSE Append(s, ent[Last(s)].next)
  IN  FoldLeft(LAMBDA s, i : step(s, i), << >>, [i \in 1..(Len(ent) + 1) |-> i])

Chain(k) == Walk(head[Hash[k]])
Chained == UNION {Range(Walk(head[b])) : b \in DOMAIN head}

\* find_in_chain.
Find(k) == LET s == SelectSeq(Chain(k), LAMBDA e : ent[e].key = k)
           IN  IF s = << >> THEN Nul ELSE s[1]

Before(e) == LET c == Chain(ent[e].key)
                 at == CHOOSE i \in DOMAIN c : c[i] = e
             IN  IF at = 1 THEN Nul ELSE c[at - 1]

Contents == [k \in {ent[e].key : e \in Chained} |-> ent[Find(k)].val]

-----------------------------------------------------------------------------
(* The journal *)

Header == [kind |-> "header", pool |-> dpool, len |-> dlen, max |-> dmax, lev |-> dlev, head |-> head]
Copied(e) == [kind |-> "entry", at |-> e, was |-> ent[e]]
NextOf(e) == [kind |-> "next", at |-> e, was |-> ent[e].next]

\* Dict::save, then the entries about to change.
Noted(entries) ==
  IF SL = 0 THEN djour
  ELSE [djour EXCEPT ![SL].log = Reverse(entries) \o (IF dlev # SL THEN << Header >> ELSE << >>) \o @]

Written(e) == ent[e].kl = SL /\ ent[e].vl = SL
ValueWritten(e) == IF flags.set THEN ent[e].kl = SL ELSE ent[e].vl = SL

\* A -persist change is owed by every restore to come.
With(f, k, v) == [x \in DOMAIN f \cup {k} |-> IF x = k THEN v ELSE f[x]]
Owed(k, v) == [l \in 1..SL |-> [djour[l] EXCEPT !.owed = With(@, k, v)]]
OwedWithout(k) == [l \in 1..SL |-> [djour[l] EXCEPT !.owed = Restrict(@, DOMAIN @ \ {k})]]

-----------------------------------------------------------------------------
(* put and set-add *)

\* put of a key that is there.
Overwrite(e, v) ==
  /\ djour' = Noted(IF ent[e].vl = SL THEN << >> ELSE << Copied(e) >>)
  /\ dlev' = SL
  /\ ent' = [ent EXCEPT ![e].val = v, ![e].vl = SL]
  /\ UNCHANGED <<head, dpool, dlen, dmax, flags, loops>>

\* expand_dict, expand_set: how many entries are added.
expand_size == Min({dmax, MaxEntries - Len(ent)})

\* put of a new key: the first entry of the pool, of a pool just added if the
\* table is full, goes to the front of its chain.
Insert(k, v) ==
  LET full == dlen = dmax
      more == IF full THEN ent \o Fresh(Len(ent), expand_size) ELSE ent
      e == IF full THEN Len(ent) + 1 ELSE dpool
      b == Hash[k]
  IN  /\ full => flags.dynamic /\ expand_size > 0
      /\ djour' = Noted(IF full \/ Written(e) THEN << >> ELSE << Copied(e) >>)
      /\ dlev' = SL
      /\ dpool' = more[e].next
      /\ ent' = [more EXCEPT ![e] = Entry(head[b], k, v, SL)]
      /\ head' = [head EXCEPT ![b] = e]
      /\ dlen' = dlen + 1 /\ dmax' = IF full THEN dmax + expand_size ELSE dmax
      /\ UNCHANGED <<flags, loops>>

LogOpen == SL > 0 => Len(djour[SL].log) < MaxLog

Put(k, v) ==
  /\ ~flags.set /\ LogOpen
  /\ IF Find(k) = Nul THEN Insert(k, v) ELSE Overwrite(Find(k), v)

set_put(k) ==
  /\ flags.set /\ LogOpen /\ Find(k) = Nul /\ Insert(k, NoVal)

-----------------------------------------------------------------------------
(* undef and set-remove *)

\* Mutant: the search for the next chain leaves one bucket out.
NextSkipping(e, b) ==
  IF e # Nul /\ ent[e].next # Nul THEN << ent[e].next, b >>
  ELSE LET from == IF e = Nul THEN 0 ELSE b + 2
           rest == {x \in from..(Buckets - 1) : head[x] # Nul}
       IN  IF rest = {} THEN << Nul, 0 >> ELSE << head[Min(rest)], Min(rest) >>

\* next_impl: the entry after e in the table, and its bucket.
NextEntry(e, b) ==
  IF e # Nul /\ ent[e].next # Nul THEN << ent[e].next, b >>
  ELSE LET from == IF e = Nul THEN 0 ELSE b + 1
           rest == {x \in from..(Buckets - 1) : head[x] # Nul}
       IN  IF rest = {} THEN << Nul, 0 >> ELSE << head[Min(rest)], Min(rest) >>

\* dict_forall_update: a loop that stands on e is put on the entry after it.
dict_forall_update(e) ==
  [i \in DOMAIN loops |->
     IF ~flags.set /\ loops[i].at = e
     THEN LET n == NextEntry(e, loops[i].bucket)
          IN  [loops[i] EXCEPT !.at = n[1], !.bucket = n[2], !.over = (n[1] = Nul)]
     ELSE loops[i]]

Current(e) == \E i \in DOMAIN loops : loops[i].at = e

\* e leaves its chain, which is cut before it, and heads the pool.
Unlinked(e, l) ==
  LET p == Before(e)
      cut == IF p = Nul THEN ent ELSE [ent EXCEPT ![p].next = ent[e].next]
  IN  /\ head' = IF p = Nul THEN [head EXCEPT ![Hash[ent[e].key]] = ent[e].next] ELSE head
      /\ ent' = [cut EXCEPT ![e] = Entry(dpool, NoKey, NoVal, l)]
      /\ dpool' = e /\ dlen' = dlen - 1 /\ UNCHANGED <<dmax, flags>>

LoopsAfter(e, k) == LET moved == dict_forall_update(e)
                    IN  [i \in DOMAIN moved |-> [moved[i] EXCEPT !.due = @ \ {k}]]

\* What undef and set-remove journal: the entry, and the link to it.
JournalUndef(e) ==
  LET p == Before(e)
  IN  Noted((IF Written(e) \/ (flags.set /\ ent[e].kl = SL) THEN << >> ELSE << Copied(e) >>)
            \o (IF p # Nul /\ ~ValueWritten(p) THEN << NextOf(p) >> ELSE << >>))

Undef(k) ==
  LET e == Find(k)
  IN  /\ e # Nul /\ LogOpen /\ (RemoveCurrent \/ ~Current(e))
      /\ djour' = JournalUndef(e) /\ dlev' = SL
      /\ Unlinked(e, SL) /\ loops' = LoopsAfter(e, k)

-----------------------------------------------------------------------------
(* The -persist operators, inside a save *)

Persists == SL > 0 /\ (PersistTouched \/ dlev = 0)

put_persist_or_create(k, v) ==
  /\ Persists /\ djour' = Owed(k, v)
  /\ IF Find(k) # Nul
     THEN /\ ~flags.set /\ ent' = [ent EXCEPT ![Find(k)].val = v, ![Find(k)].vl = 0]
          /\ UNCHANGED <<head, dlen>>
     ELSE /\ Len(ent) < MaxEntries
          /\ ent' = Append(ent, Entry(head[Hash[k]], k, v, 0))
          /\ head' = [head EXCEPT ![Hash[k]] = Len(ent) + 1]
          /\ dlen' = dlen + 1
  /\ UNCHANGED <<dpool, dmax, dlev, flags, loops>>

\* A persisted removal leaves an entry of the base level.
PersistStamp == 0

undef_persist(k) ==
  LET e == Find(k)
  IN  /\ Persists /\ e # Nul /\ (RemoveCurrent \/ ~Current(e))
      /\ djour' = OwedWithout(k) /\ Unlinked(e, PersistStamp)
      /\ loops' = LoopsAfter(e, k) /\ UNCHANGED dlev

-----------------------------------------------------------------------------
(* for-all *)

ForallStart ==
  /\ Len(loops) < MaxLoops
  /\ loops' = Append(loops, [at |-> Nul, bucket |-> 0, over |-> FALSE, key |-> NoKey, due |-> DOMAIN Contents])
  /\ UNCHANGED <<tableVars, djour>>

\* @dict-for-all, @set-for-all: deliver the entry after the last, or leave.
at_forall ==
  /\ loops # << >>
  /\ LET f == Last(loops)
         n == IF f.over THEN << Nul, 0 >> ELSE NextEntry(f.at, f.bucket)
         k == ent[n[1]].key
     IN  IF n[1] = Nul THEN loops' = Front(loops)
         ELSE loops' = Append(Front(loops), [f EXCEPT !.at = n[1], !.bucket = n[2], !.due = @ \ {k},
                                                      !.key = k])
  /\ UNCHANGED <<tableVars, djour>>

-----------------------------------------------------------------------------
(* save and restore *)

DSave ==
  /\ SL < MaxSaves
  /\ djour' = Append(djour, [log |-> << >>, owed |-> Contents])
  /\ UNCHANGED <<tableVars, loops>>

Undone(s, j) ==
  CASE j.kind = "header" -> [s EXCEPT !.pool = j.pool, !.len = j.len, !.max = j.max, !.lev = j.lev, !.head = j.head]
    [] j.kind = "entry"  -> [s EXCEPT !.ent[j.at] = j.was]
    [] OTHER             -> [s EXCEPT !.ent[j.at].next = j.was]

\* replay_journals: every entry of every level above, newest first.
DRestore(l) ==
  /\ l \in 1..SL /\ (RestoreInLoop \/ loops = << >>)
  /\ LET all == FlattenSeq([i \in 1..(SL - l + 1) |-> djour[SL - i + 1].log])
         now == [pool |-> dpool, len |-> dlen, max |-> dmax, lev |-> dlev, head |-> head, ent |-> ent]
         s == FoldLeft(Undone, now, all)
     IN  /\ ent' = s.ent /\ head' = s.head /\ dpool' = s.pool /\ dlen' = s.len /\ dmax' = s.max /\ dlev' = s.lev
  /\ djour' = SubSeq(djour, 1, l - 1)
  /\ loops' = [i \in DOMAIN loops |-> [loops[i] EXCEPT !.due = @ \cap (DOMAIN Contents)']]
  /\ UNCHANGED flags

DictNext ==
  \/ \E k \in DKeys : set_put(k) \/ Undef(k) \/ undef_persist(k)
  \/ \E k \in DKeys : \E v \in DVals[k] : Put(k, v)
  \/ \E k \in DKeys : \E v \in IF flags.set THEN {NoVal} ELSE DVals[k] : put_persist_or_create(k, v)
  \/ ForallStart \/ at_forall \/ DSave
  \/ \E l \in 1..SL : DRestore(l)

DictSpec == DictInit /\ [][DictNext]_dictVars

-----------------------------------------------------------------------------
(* Properties *)

Free == Range(Walk(dpool))

\* The table is well formed: each chain ends, holds only keys of its bucket
\* and no key twice, shares no entry with the pool, and m_length counts them.
ChainsSound ==
  /\ \A b \in DOMAIN head : LET c == Walk(head[b])
                            IN  /\ c # << >> => ent[Last(c)].next = Nul
                                /\ \A i \in DOMAIN c : ent[c[i]].key # NoKey /\ Hash[ent[c[i]].key] = b
                                /\ \A i, j \in DOMAIN c : ent[c[i]].key = ent[c[j]].key => i = j
  /\ dpool # Nul => ent[Last(Walk(dpool))].next = Nul
  /\ Free \cap Chained = {} /\ dlen = Cardinality(Chained)

\* A table with room has an entry to give: put never takes one from an empty
\* pool.
RoomHasEntries == dlen < dmax => dpool # Nul

\* No stamp is above the level in force: the next change outside a save does
\* not try to journal, which raises invalid-restore.
StampsInForce == \A e \in Chained \cup Free : ent[e].kl <= SL /\ ent[e].vl <= SL

\* restore brings back exactly the contents of the save, but for what the
\* -persist operators have changed since.
RestoresContents ==
  [][\A l \in 1..SL : djour' = SubSeq(djour, 1, l - 1) => Contents' = djour[l].owed]_dictVars

\* "iterate all elements": whatever its body puts and removes, a loop delivers
\* no empty entry, and before it ends every key that was there all along.
ForallExact ==
  [][/\ Len(loops') < Len(loops) => Last(loops).due = {}
     /\ (Len(loops') = Len(loops) /\ loops # << >> /\ Last(loops').at \notin {Nul, Last(loops).at})
          => ent[Last(loops').at].key # NoKey]_dictVars

\* Chains, pool and stamps stay well formed, a restore brings back the contents
\* of its save, and a loop over a table that changes delivers what it must.
DictSound ==
  /\ [](ChainsSound /\ RoomHasEntries /\ StampsInForce)
  /\ RestoresContents
  /\ ForallExact

=============================================================================

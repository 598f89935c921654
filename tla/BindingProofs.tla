---------------------------- MODULE BindingProofs ----------------------------
(***************************************************************************)
(* The name caches of BindingCache are correct for every set of names,     *)
(* dictionaries and coroutines, as long as programs create names only in   *)
(* the block of their dictionary (Plainly): with grown or string keys, new *)
(* persisted keys or names stored into a dictionary that others have begun *)
(* the caches do go wrong.                                                 *)
(*                                                                         *)
(* The inductive invariant BindInv adds to the property what each step     *)
(* relies on: frames are on one stack at most and empty otherwise; who is  *)
(* not alive has no dictionaries and no table; a slot that was cached      *)
(* before the save is one that a restore leaves in place.                  *)
(***************************************************************************)
EXTENDS BindingCache, WellFoundedInduction, SequenceTheorems, TLAPS

-----------------------------------------------------------------------------
(* The invariant's parts *)

\* Names are created in the block of their dictionary.
Plainly == NewKinds \subseteq {"own"} /\ ~PersistNew /\ ~SharedStore

Entries == {None, "own", "unset"}
Alive == up \cup {MainCo}
Slots == AllDicts \cup {None}
Empty == [n \in BNames |-> None]

\* The values of the variables.
BindTypes ==
  /\ holds \in [AllDicts -> [BNames -> Entries]] /\ bimage \in [AllDicts -> [BNames -> Entries]]
  /\ dstack \in [AllCo -> Seq(BDicts)] /\ up \subseteq BCo /\ runs \in Alive
  /\ single \in [BNames -> Slots] /\ table \in [AllCo -> [BNames -> [slot : Slots, lev : {0, 1}]]]
  /\ blev \in {0, 1}

\* Is d among the dictionaries that c has begun?
Begun(d, c) == \E i \in DOMAIN dstack[c] : dstack[c][i] = d

\* A frame is on one stack, once; when it is on none it is empty, and so is the image of every frame.
FramesOwned ==
  /\ \A c, e \in AllCo : \A i \in DOMAIN dstack[c], j \in DOMAIN dstack[e] :
       dstack[c][i] = dstack[e][j] /\ dstack[c][i] \in Frames => c = e /\ i = j
  /\ \A d \in Frames : (\A c \in AllCo : ~Begun(d, c)) => holds[d] = Empty
  /\ \A d \in Frames : bimage[d] = Empty

\* Only frames have names without a value.
ValuesSet == \A d \in AllDicts \ Frames, n \in BNames : holds[d][n] # "unset" /\ bimage[d][n] # "unset"

\* Who is not alive has nothing.
DeadHaveNothing == \A c \in AllCo \ Alive : dstack[c] = << >> /\ table[c] = NoTable

\* A slot of name n cached before the save is in the image, and what is in the image is still there.
Lasting(n, b) == b.slot # None /\ b.lev = 0 =>
  /\ bimage[b.slot][n] = "own"
  /\ \A d \in AllDicts : bimage[d][n] = "own" => holds[d][n] = "own"
OldSlots == \A c \in AllCo, n \in BNames :
  /\ table[c][n].lev <= blev
  /\ blev = 1 => Lasting(n, table[c][n])

BindInv ==
  BindTypes /\ FramesOwned /\ ValuesSet /\ DeadHaveNothing /\ OldSlots /\ CacheAgrees /\ OneCacheAtATime


-----------------------------------------------------------------------------
(* Searching a stack of dictionaries *)

Has(h, d, n) == h[d][n] \notin {None, "unset"}
Stack(s) == << LocalDict >> \o s
AtTop(h, s, n, i) == i \in DOMAIN Stack(s) /\ Has(h, Stack(s)[i], n) /\ \A j \in DOMAIN Stack(s) : Has(h, Stack(s)[j], n) => j <= i
Top(h, s, n) ==
  LET at == {i \in DOMAIN Stack(s) : Has(h, Stack(s)[i], n)} IN IF at = {} THEN None ELSE Stack(s)[Max(at)]

LEMMA SearchIsTop == ASSUME NEW c, NEW n PROVE Search(c, n) = Top(holds, dstack[c], n)
BY DEF Search, Top, Has, Found, Stack

LEMMA StackOf ==
  ASSUME NEW s \in Seq(BDicts)
  PROVE  /\ DOMAIN Stack(s) = 1..(Len(s) + 1) /\ Stack(s)[1] = LocalDict
         /\ \A i \in DOMAIN s : i + 1 \in DOMAIN Stack(s) /\ Stack(s)[i + 1] = s[i]
         /\ \A i \in DOMAIN Stack(s) : Stack(s)[i] \in AllDicts /\ (i = 1 \/ (i - 1 \in DOMAIN s /\ Stack(s)[i] = s[i - 1]))
<1>1. << LocalDict >> \in Seq(AllDicts) /\ s \in Seq(AllDicts)
  BY DEF AllDicts
<1>2. /\ Stack(s) \in Seq(AllDicts) /\ Len(Stack(s)) = Len(s) + 1
      /\ \A i \in 1..(Len(s) + 1) : Stack(s)[i] = IF i <= 1 THEN LocalDict ELSE s[i - 1]
  BY <1>1 DEF Stack
<1>3. DOMAIN Stack(s) = 1..(Len(s) + 1) /\ DOMAIN s = 1..Len(s) /\ Len(s) \in Nat
  BY <1>2
<1>4. \A i \in DOMAIN Stack(s) : Stack(s)[i] \in AllDicts
  BY <1>2, <1>3
<1> QED
  BY <1>2, <1>3, <1>4

\* A non-empty set of places has a greatest element.
LEMMA GreatestPlace ==
  ASSUME NEW k \in Nat, NEW T, T \subseteq 1..k, T # {}
  PROVE  \E x \in T : \A y \in T : y <= x
<1> DEFINE R == OpToRel(<, Nat)
<1> DEFINE U == {k - x : x \in T}
<1>1. U \subseteq Nat /\ U # {}
  OBVIOUS
<1>2. ASSUME NEW x \in Nat, NEW y \in Nat, ~(<<y, x>> \in R)
      PROVE  x <= y
  <2>1. ~(y < x)
    BY <1>2 DEF OpToRel
  <2> QED
    BY <2>1
<1>3. IsWellFoundedOn(R, Nat)
  BY NatLessThanWellFounded
<1> HIDE DEF R, U
<1>4. PICK m \in U : \A y \in U : ~(<<y, m>> \in R)
  BY <1>1, <1>3, WFMin
<1>5. PICK x \in T : m = k - x
  BY <1>4 DEF U
<1>6. ASSUME NEW y \in T PROVE y <= x
  <2>1. k - y \in U /\ m \in U
    BY <1>4 DEF U
  <2>2. m <= k - y
    BY <1>1, <1>2, <1>4, <2>1
  <2> QED
    BY <1>5, <2>2
<1> QED
  BY <1>6

\* A search finds what the highest place that has the name holds.
LEMMA TopAt ==
  ASSUME NEW h, NEW s \in Seq(BDicts), NEW n, NEW i, AtTop(h, s, n, i)
  PROVE  Top(h, s, n) = Stack(s)[i]
<1> DEFINE at == {k \in DOMAIN Stack(s) : Has(h, Stack(s)[k], n)}
<1>1. i \in at /\ at \subseteq Nat /\ \A j \in at : j <= i
  BY StackOf DEF AtTop
<1>2. Max(at) = i
  BY <1>1 DEF Max
<1> QED
  BY <1>1, <1>2 DEF Top

\* If nobody has the name nothing is found, and if somebody has there is a highest place.
LEMMA TopCases ==
  ASSUME NEW h, NEW s \in Seq(BDicts), NEW n
  PROVE  \/ Top(h, s, n) = None /\ \A i \in DOMAIN Stack(s) : ~Has(h, Stack(s)[i], n)
         \/ \E i \in DOMAIN Stack(s) : AtTop(h, s, n, i)
<1> DEFINE at == {k \in DOMAIN Stack(s) : Has(h, Stack(s)[k], n)}
<1>1. CASE at = {}
  BY <1>1 DEF Top
<1>2. CASE at # {}
  <2>1. at \subseteq 1..(Len(s) + 1) /\ Len(s) + 1 \in Nat
    BY StackOf
  <2>2. PICK x \in at : \A y \in at : y <= x
    BY <1>2, <2>1, GreatestPlace
  <2> QED
    BY <2>2 DEF AtTop
<1> QED
  BY <1>1, <1>2

\* The same, without places.
LEMMA TopFound ==
  ASSUME NEW h, NEW s \in Seq(BDicts), NEW n
  PROVE  /\ Top(h, s, n) \in Slots
         /\ Top(h, s, n) # None => /\ Has(h, Top(h, s, n), n)
                                   /\ Top(h, s, n) = LocalDict \/ \E i \in DOMAIN s : s[i] = Top(h, s, n)
         /\ Top(h, s, n) = None => ~Has(h, LocalDict, n) /\ \A i \in DOMAIN s : ~Has(h, s[i], n)
<1>1. CASE Top(h, s, n) = None /\ \A i \in DOMAIN Stack(s) : ~Has(h, Stack(s)[i], n)
  <2>1. ~Has(h, LocalDict, n)
    BY <1>1, StackOf
  <2> QED
    BY <1>1, <2>1, StackOf DEF Slots
<1>2. CASE \E i \in DOMAIN Stack(s) : AtTop(h, s, n, i)
  <2>1. PICK i \in DOMAIN Stack(s) : AtTop(h, s, n, i)
    BY <1>2
  <2>2. Top(h, s, n) = Stack(s)[i] /\ Has(h, Stack(s)[i], n)
    BY <2>1, TopAt DEF AtTop
  <2>3. Stack(s)[i] \in AllDicts /\ None \notin AllDicts
    BY StackOf, BindAssumption DEF AllDicts, LocalDict, None
  <2> QED
    BY <2>2, <2>3, StackOf DEF Slots
<1> QED
  BY <1>1, <1>2, TopCases

\* What a dictionary that goes on top has is found there, the rest as before.
LEMMA TopPush ==
  ASSUME NEW h, NEW s \in Seq(BDicts), NEW n, NEW d \in BDicts
  PROVE  Top(h, Append(s, d), n) = IF Has(h, d, n) THEN d ELSE Top(h, s, n)
<1> DEFINE u == Append(s, d)
<1>1. u \in Seq(BDicts) /\ Len(u) = Len(s) + 1 /\ u[Len(s) + 1] = d /\ Len(s) \in Nat /\ \A i \in DOMAIN s : u[i] = s[i]
  OBVIOUS
<1> HIDE DEF u
<1>2. /\ DOMAIN Stack(u) = 1..(Len(s) + 2) /\ DOMAIN Stack(s) = 1..(Len(s) + 1)
      /\ Stack(u)[Len(s) + 2] = d
      /\ \A i \in DOMAIN Stack(s) : Stack(u)[i] = Stack(s)[i]
  <2>1. DOMAIN u = 1..(Len(s) + 1) /\ DOMAIN s = 1..Len(s)
    BY <1>1
  <2>2. DOMAIN Stack(u) = 1..(Len(s) + 2) /\ DOMAIN Stack(s) = 1..(Len(s) + 1) /\ Stack(u)[Len(s) + 2] = d
    BY <1>1, <2>1, StackOf
  <2>3. Stack(u)[1] = Stack(s)[1]
    BY <1>1, StackOf
  <2>4. ASSUME NEW i \in DOMAIN Stack(s), i # 1 PROVE Stack(u)[i] = Stack(s)[i]
    <3>1. i - 1 \in DOMAIN s /\ i - 1 \in DOMAIN u /\ (i - 1) + 1 = i
      BY <2>1, <2>2, <2>4
    <3>2. Stack(s)[i] = s[i - 1]
      BY <3>1, StackOf
    <3>3. Stack(u)[i] = u[i - 1]
      BY <1>1, <3>1, StackOf
    <3> QED
      BY <1>1, <3>1, <3>2, <3>3
  <2> QED
    BY <2>2, <2>3, <2>4
<1>3. CASE Has(h, d, n)
  <2>1. AtTop(h, u, n, Len(s) + 2)
    BY <1>1, <1>2, <1>3 DEF AtTop
  <2>2. Top(h, u, n) = Stack(u)[Len(s) + 2]
    BY <1>1, <2>1, TopAt
  <2> QED
    BY <1>2, <1>3, <2>2 DEF u
<1>4. CASE ~Has(h, d, n)
  <2>1. CASE Top(h, s, n) = None /\ \A i \in DOMAIN Stack(s) : ~Has(h, Stack(s)[i], n)
    <3>1. \A i \in DOMAIN Stack(u) : ~Has(h, Stack(u)[i], n)
      BY <1>1, <1>2, <1>4, <2>1
    <3>2. Top(h, u, n) = None
      BY <1>1, <3>1, TopCases DEF AtTop
    <3> QED
      BY <1>4, <2>1, <3>2 DEF u
  <2>2. CASE \E i \in DOMAIN Stack(s) : AtTop(h, s, n, i)
    <3>1. PICK i \in DOMAIN Stack(s) : AtTop(h, s, n, i)
      BY <2>2
    <3>2. AtTop(h, u, n, i)
      BY <1>1, <1>2, <1>4, <3>1 DEF AtTop
    <3>3. Top(h, u, n) = Stack(u)[i] /\ Top(h, s, n) = Stack(s)[i]
      BY <1>1, <3>1, <3>2, TopAt
    <3> QED
      BY <1>2, <1>4, <3>1, <3>3 DEF u
  <2> QED
    BY <2>1, <2>2, TopCases
<1> QED
  BY <1>3, <1>4

\* What the topmost dictionary does not have is found below it.
LEMMA TopPop ==
  ASSUME NEW h, NEW s \in Seq(BDicts), s # << >>, NEW n
  PROVE  /\ Front(s) \in Seq(BDicts) /\ Last(s) \in BDicts
         /\ Top(h, s, n) = IF Has(h, Last(s), n) THEN Last(s) ELSE Top(h, Front(s), n)
<1>1. Front(s) \in Seq(BDicts) /\ Last(s) \in BDicts /\ s = Append(Front(s), Last(s))
  BY DEF Front, Last
<1> QED
  BY <1>1, TopPush

\* A search depends only on which dictionaries of the stack have the name.
LEMMA TopSame ==
  ASSUME NEW h, NEW g, NEW s \in Seq(BDicts), NEW n, Has(h, LocalDict, n) <=> Has(g, LocalDict, n),
         \A i \in DOMAIN s : Has(h, s[i], n) <=> Has(g, s[i], n)
  PROVE  Top(h, s, n) = Top(g, s, n)
<1>1. \A i \in DOMAIN Stack(s) : Has(h, Stack(s)[i], n) <=> Has(g, Stack(s)[i], n)
  BY StackOf
<1> QED
  BY <1>1 DEF Top

\* The same when it is so for every dictionary.
LEMMA TopUnchanged ==
  ASSUME NEW h, NEW g, NEW s \in Seq(BDicts), NEW n, \A d \in AllDicts : Has(h, d, n) <=> Has(g, d, n)
  PROVE  Top(h, s, n) = Top(g, s, n)
<1>1. \A i \in DOMAIN Stack(s) : Has(h, Stack(s)[i], n) <=> Has(g, Stack(s)[i], n)
  BY StackOf
<1> QED
  BY <1>1 DEF Top

\* A name that only d has is found in d.
LEMMA TopOnly ==
  ASSUME NEW h, NEW s \in Seq(BDicts), NEW n, NEW d, Has(h, d, n), d = LocalDict \/ \E i \in DOMAIN s : s[i] = d,
         d # LocalDict => ~Has(h, LocalDict, n),
         \A i \in DOMAIN s : s[i] # d => ~Has(h, s[i], n)
  PROVE  Top(h, s, n) = d
<1>1. Top(h, s, n) # None
  BY TopFound
<1> QED
  BY <1>1, TopFound

\* What is put into the bottom dictionary is not found by those who find the name above it.
LEMMA TopBottom ==
  ASSUME NEW h, NEW g, NEW s \in Seq(BDicts), NEW n, Top(h, s, n) # None, ~Has(h, LocalDict, n),
         \A i \in DOMAIN s : Has(h, s[i], n) <=> Has(g, s[i], n)
  PROVE  Top(g, s, n) = Top(h, s, n)
<1>1. PICK i \in DOMAIN Stack(s) : AtTop(h, s, n, i)
  BY TopCases
<1>2. i # 1 /\ Has(h, Stack(s)[i], n)
  BY <1>1, StackOf DEF AtTop
<1>3. \A j \in DOMAIN Stack(s) : j # 1 => (Has(h, Stack(s)[j], n) <=> Has(g, Stack(s)[j], n))
  BY StackOf
<1>4. AtTop(g, s, n, i)
  BY <1>1, <1>2, <1>3, StackOf DEF AtTop
<1> QED
  BY <1>1, <1>4, TopAt


\* A name is still found where it was if it is still there and no dictionary has got it.
LEMMA TopLess ==
  ASSUME NEW h, NEW g, NEW s \in Seq(BDicts), NEW n, Top(h, s, n) # None, Has(g, Top(h, s, n), n),
         \A d \in AllDicts : Has(g, d, n) => Has(h, d, n)
  PROVE  Top(g, s, n) = Top(h, s, n)
<1>1. PICK i \in DOMAIN Stack(s) : AtTop(h, s, n, i)
  BY TopCases
<1>2. Top(h, s, n) = Stack(s)[i]
  BY <1>1, TopAt
<1>3. AtTop(g, s, n, i)
  BY <1>1, <1>2, StackOf DEF AtTop
<1> QED
  BY <1>2, <1>3, TopAt

-----------------------------------------------------------------------------
(* The caches *)

Now(c, n) == IF up = {} THEN single[n] ELSE table[c][n].slot

LEMMA Constants ==
  /\ None \notin AllDicts /\ LocalDict \notin BDicts /\ LocalDict \in AllDicts /\ BDicts \subseteq AllDicts
  /\ Frames \subseteq BDicts /\ MainCo \notin BCo /\ AllCo = BCo \cup {MainCo}
  /\ NoBinding.slot = None /\ NoBinding.lev = 0 /\ NoBinding \in [slot : Slots, lev : {0, 1}]
  /\ NoTable \in [BNames -> [slot : Slots, lev : {0, 1}]] /\ \A n \in BNames : NoTable[n] = NoBinding
BY BindAssumption DEF AllDicts, AllCo, LocalDict, None, MainCo, NoBinding, NoTable, Slots

LEMMA HasOwn ==
  ASSUME BindTypes
  PROVE  /\ \A d \in AllDicts, n \in BNames : Has(holds, d, n) <=> holds[d][n] = "own"
         /\ \A d \in AllDicts, n \in BNames : Has(bimage, d, n) <=> bimage[d][n] = "own"
BY DEF BindTypes, Has, Entries, None

\* CacheAgrees, in these terms, before and after a step.
LEMMA Agreed ==
  ASSUME CacheAgrees, NEW c \in Alive, NEW n \in BNames
  PROVE  Now(c, n) \in {None, Top(holds, dstack[c], n)}
BY SearchIsTop DEF CacheAgrees, Cached, Alone, Alive, Now

LEMMA Agrees ==
  ASSUME \A c \in Alive', n \in BNames : Now(c, n)' \in {None, Top(holds', dstack'[c], n)}
  PROVE  CacheAgrees'
BY DEF CacheAgrees, Cached, Alone, Alive, Now, Search, Top, Has, Found, Stack

\* The cache after a name was set for the running coroutine.
LEMMA BindingSet ==
  ASSUME BindInv, NEW n \in BNames, NEW d \in AllDicts, SetBinding(n, d), UNCHANGED <<up, runs, blev>>
  PROVE  /\ single' \in [BNames -> Slots] /\ table' \in [AllCo -> [BNames -> [slot : Slots, lev : {0, 1}]]]
         /\ OneCacheAtATime'
         /\ \A c \in Alive, m \in BNames : Now(c, m)' = IF c = runs /\ m = n THEN d ELSE Now(c, m)
         /\ \A c \in AllCo \ Alive : table'[c] = table[c]
         /\ \A c \in AllCo, m \in BNames : table'[c][m] = table[c][m] \/ (table'[c][m].slot = d /\ table'[c][m].lev = blev)
<1>1. BindTypes /\ OneCacheAtATime
  BY DEF BindInv
<1>2. CASE up = {}
  <2>1. single' = [single EXCEPT ![n] = d] /\ table' = table
    BY <1>2 DEF SetBinding, Alone
  <2>2. Alive = {MainCo} /\ runs = MainCo
    BY <1>1, <1>2 DEF BindTypes, Alive
  <2> QED
    BY <1>1, <1>2, <2>1, <2>2 DEF BindTypes, OneCacheAtATime, Alone, Now, Slots
<1>3. CASE up # {}
  <2>1. table' = [table EXCEPT ![runs][n] = [slot |-> d, lev |-> blev]] /\ single' = single
    BY <1>3 DEF SetBinding, Alone
  <2>2. runs \in AllCo /\ runs \in Alive /\ Alive \subseteq AllCo
    BY <1>1 DEF BindTypes, Alive, AllCo
  <2>3. [slot |-> d, lev |-> blev] \in [slot : Slots, lev : {0, 1}]
    BY <1>1 DEF BindTypes, Slots
  <2>4. table' \in [AllCo -> [BNames -> [slot : Slots, lev : {0, 1}]]]
    BY <1>1, <2>1, <2>2, <2>3 DEF BindTypes
  <2> QED
    BY <1>1, <1>3, <2>1, <2>2, <2>4 DEF BindTypes, OneCacheAtATime, Alone, Now
<1> QED
  BY <1>2, <1>3

\* The caches after everybody has forgotten a name.
LEMMA BindingCleared ==
  ASSUME BindInv, NEW n \in BNames, ClearBindings({n}), UNCHANGED <<up, runs, blev>>
  PROVE  /\ single' \in [BNames -> Slots] /\ table' \in [AllCo -> [BNames -> [slot : Slots, lev : {0, 1}]]]
         /\ OneCacheAtATime'
         /\ \A c \in Alive, m \in BNames : Now(c, m)' = IF m = n THEN None ELSE Now(c, m)
         /\ \A c \in AllCo, m \in BNames : table'[c][m] = IF m = n THEN NoBinding ELSE table[c][m]
<1>1. BindTypes /\ OneCacheAtATime
  BY DEF BindInv
<1>2. CASE up = {}
  <2>1. single' = [m \in BNames |-> IF m \in {n} THEN None ELSE single[m]] /\ table' = table
    BY <1>2 DEF ClearBindings, Alone
  <2>2. \A c \in AllCo, m \in BNames : table[c][m] = NoBinding
    BY <1>1, <1>2, Constants DEF OneCacheAtATime, Alone
  <2> QED
    BY <1>1, <1>2, <2>1, <2>2 DEF BindTypes, OneCacheAtATime, Alone, Now, Slots
<1>3. CASE up # {}
  <2>1. table' = [c \in AllCo |-> [m \in BNames |-> IF m \in {n} THEN NoBinding ELSE table[c][m]]] /\ single' = single
    BY <1>3 DEF ClearBindings, Alone
  <2>2. Alive \subseteq AllCo
    BY <1>1 DEF BindTypes, Alive, AllCo
  <2> QED
    BY <1>1, <1>3, <2>1, <2>2, Constants DEF BindTypes, OneCacheAtATime, Alone, Now
<1> QED
  BY <1>2, <1>3

-----------------------------------------------------------------------------
(* Operators that set the binding of a name, or clear it *)

\* The running coroutine has found or put the name n in d, and remembers it.
LEMMA NameBound ==
  ASSUME BindInv, NEW n \in BNames, NEW d \in AllDicts, SetBinding(n, d), UNCHANGED <<dstack, up, runs, blev, bimage>>,
         holds' = [holds EXCEPT ![d][n] = "own"], d \in Frames => \E c \in AllCo : Begun(d, c),
         Top(holds', dstack[runs], n) = d,
         \A c \in Alive : c # runs => Now(c, n) \in {None, Top(holds', dstack[c], n)}
  PROVE  BindInv'
<1>1. BindTypes /\ FramesOwned /\ ValuesSet /\ DeadHaveNothing /\ OldSlots /\ CacheAgrees
  BY DEF BindInv
<1>2. /\ single' \in [BNames -> Slots] /\ table' \in [AllCo -> [BNames -> [slot : Slots, lev : {0, 1}]]]
      /\ OneCacheAtATime'
      /\ \A c \in Alive, m \in BNames : Now(c, m)' = IF c = runs /\ m = n THEN d ELSE Now(c, m)
      /\ \A c \in AllCo \ Alive : table'[c] = table[c]
      /\ \A c \in AllCo, m \in BNames : table'[c][m] = table[c][m] \/ (table'[c][m].slot = d /\ table'[c][m].lev = blev)
  BY BindingSet
<1>3. /\ holds' \in [AllDicts -> [BNames -> Entries]]
      /\ \A e \in AllDicts, m \in BNames : holds'[e][m] = IF e = d /\ m = n THEN "own" ELSE holds[e][m]
  BY <1>1 DEF BindTypes, Entries
<1>4. BindTypes'
  BY <1>1, <1>2, <1>3 DEF BindTypes, Alive
<1>5. FramesOwned'
  <2>1. \A f \in Frames : (\A c \in AllCo : ~Begun(f, c)) => holds'[f] = Empty
    BY <1>1, Constants DEF FramesOwned, BindTypes
  <2> QED
    BY <1>1, <2>1 DEF FramesOwned, Begun
<1>6. ValuesSet'
  BY <1>1, <1>3, Constants DEF ValuesSet
<1>7. DeadHaveNothing'
  BY <1>1, <1>2 DEF DeadHaveNothing, Alive
<1>8. OldSlots'
  <2> SUFFICES ASSUME NEW c \in AllCo, NEW m \in BNames
               PROVE  table'[c][m].lev <= blev /\ (blev = 1 => Lasting(m, table[c][m])')
    BY DEF OldSlots
  <2>1. table[c][m].lev <= blev /\ (blev = 1 => Lasting(m, table[c][m]))
    BY <1>1 DEF OldSlots
  <2>2. \A e \in AllDicts : holds[e][m] = "own" => holds'[e][m] = "own"
    BY <1>3
  <2>3. CASE table'[c][m] = table[c][m]
    BY <2>1, <2>2, <2>3 DEF Lasting
  <2>4. CASE table'[c][m].slot = d /\ table'[c][m].lev = blev
    BY <1>1, <2>4 DEF Lasting, BindTypes
  <2> QED
    BY <1>2, <2>3, <2>4
<1>9. CacheAgrees'
  <2> SUFFICES ASSUME NEW c \in Alive, NEW m \in BNames PROVE Now(c, m)' \in {None, Top(holds', dstack[c], m)}
    BY Agrees DEF Alive
  <2>1. dstack[c] \in Seq(BDicts)
    BY <1>1 DEF BindTypes, Alive, AllCo
  <2>2. CASE m = n
    BY <1>2, <2>2
  <2>3. CASE m # n
    <3>1. \A e \in AllDicts : Has(holds', e, m) <=> Has(holds, e, m)
      BY <1>3, <2>3 DEF Has
    <3>2. PICK g : g = holds'
      OBVIOUS
    <3>3. \A e \in AllDicts : Has(g, e, m) <=> Has(holds, e, m)
      BY <3>1, <3>2
    <3>4. Top(g, dstack[c], m) = Top(holds, dstack[c], m)
      BY <2>1, <3>3, TopUnchanged
    <3>5. Top(holds', dstack[c], m) = Top(holds, dstack[c], m)
      BY <3>2, <3>4
    <3>6. Now(c, m) \in {None, Top(holds, dstack[c], m)}
      BY <1>1, Agreed
    <3> QED
      BY <1>2, <2>3, <3>5, <3>6
  <2> QED
    BY <2>2, <2>3
<1> QED
  BY <1>2, <1>4, <1>5, <1>6, <1>7, <1>8, <1>9 DEF BindInv

\* The name n is put into d or removed from it, and everybody forgets it.
LEMMA NameForgotten ==
  ASSUME BindInv, NEW n \in BNames, NEW d \in AllDicts, NEW v \in {"own", None}, ClearBindings({n}),
         UNCHANGED <<dstack, up, runs, blev, bimage>>,
         holds' = [holds EXCEPT ![d][n] = v], d \in Frames => \E c \in AllCo : Begun(d, c)
  PROVE  BindInv'
<1>1. BindTypes /\ FramesOwned /\ ValuesSet /\ DeadHaveNothing /\ OldSlots /\ CacheAgrees
  BY DEF BindInv
<1>2. /\ single' \in [BNames -> Slots] /\ table' \in [AllCo -> [BNames -> [slot : Slots, lev : {0, 1}]]]
      /\ OneCacheAtATime'
      /\ \A c \in Alive, m \in BNames : Now(c, m)' = IF m = n THEN None ELSE Now(c, m)
      /\ \A c \in AllCo, m \in BNames : table'[c][m] = IF m = n THEN NoBinding ELSE table[c][m]
  BY BindingCleared
<1>3. /\ holds' \in [AllDicts -> [BNames -> Entries]]
      /\ \A e \in AllDicts, m \in BNames : holds'[e][m] = IF e = d /\ m = n THEN v ELSE holds[e][m]
  BY <1>1 DEF BindTypes, Entries
<1>4. BindTypes'
  BY <1>1, <1>2, <1>3 DEF BindTypes, Alive
<1>5. FramesOwned'
  <2>1. \A f \in Frames : (\A c \in AllCo : ~Begun(f, c)) => holds'[f] = Empty
    BY <1>1, Constants DEF FramesOwned, BindTypes
  <2> QED
    BY <1>1, <2>1 DEF FramesOwned, Begun
<1>6. ValuesSet'
  BY <1>1, <1>3, Constants DEF ValuesSet, None
<1>7. DeadHaveNothing'
  <2>1. ASSUME NEW c \in AllCo \ Alive PROVE table'[c] = NoTable
    <3>1. \A m \in BNames : table'[c][m] = NoTable[m]
      BY <1>1, <1>2, Constants DEF DeadHaveNothing
    <3> QED
      BY <1>2, <3>1, Constants
  <2> QED
    BY <1>1, <2>1 DEF DeadHaveNothing, Alive
<1>8. OldSlots'
  <2> SUFFICES ASSUME NEW c \in AllCo, NEW m \in BNames
               PROVE  table'[c][m].lev <= blev /\ (blev = 1 => Lasting(m, table[c][m])')
    BY DEF OldSlots
  <2>1. table[c][m].lev <= blev /\ (blev = 1 => Lasting(m, table[c][m]))
    BY <1>1 DEF OldSlots
  <2>2. CASE m = n
    BY <1>1, <1>2, <2>2, Constants DEF Lasting, BindTypes
  <2>3. CASE m # n
    <3>1. table'[c][m] = table[c][m] /\ \A e \in AllDicts : holds'[e][m] = holds[e][m]
      BY <1>2, <1>3, <2>3
    <3> QED
      BY <2>1, <3>1 DEF Lasting
  <2> QED
    BY <2>2, <2>3
<1>9. CacheAgrees'
  <2> SUFFICES ASSUME NEW c \in Alive, NEW m \in BNames PROVE Now(c, m)' \in {None, Top(holds', dstack[c], m)}
    BY Agrees DEF Alive
  <2>1. dstack[c] \in Seq(BDicts)
    BY <1>1 DEF BindTypes, Alive, AllCo
  <2>2. CASE m = n
    BY <1>2, <2>2
  <2>3. CASE m # n
    <3>1. \A e \in AllDicts : Has(holds', e, m) <=> Has(holds, e, m)
      BY <1>3, <2>3 DEF Has
    <3>2. PICK g : g = holds'
      OBVIOUS
    <3>3. \A e \in AllDicts : Has(g, e, m) <=> Has(holds, e, m)
      BY <3>1, <3>2
    <3>4. Top(g, dstack[c], m) = Top(holds, dstack[c], m)
      BY <2>1, <3>3, TopUnchanged
    <3>5. Top(holds', dstack[c], m) = Top(holds, dstack[c], m)
      BY <3>2, <3>4
    <3>6. Now(c, m) \in {None, Top(holds, dstack[c], m)}
      BY <1>1, Agreed
    <3> QED
      BY <1>2, <2>3, <3>5, <3>6
  <2> QED
    BY <2>2, <2>3
<1> QED
  BY <1>2, <1>4, <1>5, <1>6, <1>7, <1>8, <1>9 DEF BindInv

-----------------------------------------------------------------------------
(* Dictionaries begun and ended *)

\* An empty frame, or a dictionary that is no frame, goes on top of the stack of the running coroutine.
LEMMA Pushed ==
  ASSUME BindInv, NEW d \in BDicts, NEW h \in [BNames -> Entries], set_name_bindings(d, h), UNCHANGED <<up, runs, blev, bimage>>,
         holds' = [holds EXCEPT ![d] = h], dstack' = [dstack EXCEPT ![runs] = Append(@, d)],
         IF d \in Frames THEN \A c \in AllCo : ~Begun(d, c) ELSE h = holds[d]
  PROVE  BindInv'
<1>1. BindTypes /\ FramesOwned /\ ValuesSet /\ DeadHaveNothing /\ OldSlots /\ CacheAgrees /\ OneCacheAtATime
  BY DEF BindInv
<1>2. /\ runs \in AllCo /\ runs \in Alive /\ Alive \subseteq AllCo /\ d \in AllDicts /\ d # LocalDict /\ Alive' = Alive
      /\ \A c \in AllCo : dstack[c] \in Seq(BDicts)
  BY <1>1, Constants DEF BindTypes, Alive, AllCo
<1>3. /\ holds' \in [AllDicts -> [BNames -> Entries]] /\ holds'[d] = h
      /\ \A e \in AllDicts : e # d => holds'[e] = holds[e]
      /\ \A e \in AllDicts \ Frames : holds'[e] = holds[e]
  BY <1>1, <1>2 DEF BindTypes
<1>4. /\ dstack' \in [AllCo -> Seq(BDicts)] /\ dstack'[runs] = Append(dstack[runs], d)
      /\ \A c \in AllCo : c # runs => dstack'[c] = dstack[c]
  <2>1. Append(dstack[runs], d) \in Seq(BDicts)
    BY <1>2
  <2> QED
    BY <1>1, <1>2, <2>1 DEF BindTypes
<1>5. /\ single' \in [BNames -> Slots] /\ table' \in [AllCo -> [BNames -> [slot : Slots, lev : {0, 1}]]]
      /\ OneCacheAtATime'
      /\ \A c \in AllCo, m \in BNames : table'[c][m] \in {table[c][m], NoBinding}
      /\ \A c \in AllCo \ Alive : table'[c] = table[c]
      /\ \A c \in Alive, m \in BNames :
           \/ Now(c, m)' = Now(c, m) /\ (c = runs => h[m] = None)
           \/ Now(c, m)' = None
           \/ c = runs /\ h[m] = "own" /\ Now(c, m)' = d
  <2>1. CASE up = {}
    <3>1. single' = [n \in BNames |-> IF h[n] \in {"own", "grown"} THEN d ELSE IF h[n] = "unset" THEN None ELSE single[n]] /\ table' = table
      BY <2>1 DEF set_name_bindings, Alone
    <3>2. Alive = {MainCo} /\ runs = MainCo
      BY <1>1, <2>1 DEF BindTypes, Alive
    <3>3. single' \in [BNames -> Slots] /\ \A m \in BNames : h[m] \in Entries
      BY <1>1, <1>2, <3>1 DEF BindTypes, Slots
    <3>4. \A m \in BNames : single'[m] = IF h[m] = "own" THEN d ELSE IF h[m] = "unset" THEN None ELSE single[m]
      BY <3>1, <3>3 DEF Entries, None
    <3> QED
      BY <1>1, <2>1, <3>1, <3>2, <3>3, <3>4 DEF BindTypes, OneCacheAtATime, Alone, Now, Entries
  <2>2. CASE up # {}
    <3>1. table' = [table EXCEPT ![runs] = [n \in BNames |-> IF h[n] \in {None, "string"} THEN @[n] ELSE NoBinding]] /\ single' = single
      BY <2>2 DEF set_name_bindings, Alone
    <3>2. \A m \in BNames : h[m] \in {None, "string"} <=> h[m] = None
      BY DEF Entries, None
    <3>3. /\ table' \in [AllCo -> [BNames -> [slot : Slots, lev : {0, 1}]]]
          /\ \A m \in BNames : table'[runs][m] = IF h[m] = None THEN table[runs][m] ELSE NoBinding
          /\ \A c \in AllCo : c # runs => table'[c] = table[c]
      BY <1>1, <1>2, <3>1, <3>2, Constants DEF BindTypes
    <3> QED
      BY <1>1, <1>2, <2>2, <3>1, <3>3, Constants DEF BindTypes, OneCacheAtATime, Alone, Now
  <2> QED
    BY <2>1, <2>2
<1>6. BindTypes'
  BY <1>1, <1>2, <1>3, <1>4, <1>5 DEF BindTypes
<1>7. \A c \in AllCo : /\ \A i \in DOMAIN dstack[c] : i \in DOMAIN dstack'[c] /\ dstack'[c][i] = dstack[c][i]
                       /\ \A i \in DOMAIN dstack'[c] : i \in DOMAIN dstack[c] \/ (c = runs /\ i = Len(dstack[c]) + 1 /\ dstack'[c][i] = d)
  BY <1>2, <1>4
<1>8. FramesOwned'
  <2>1. ASSUME NEW c \in AllCo, NEW e \in AllCo, NEW i \in DOMAIN dstack'[c], NEW j \in DOMAIN dstack'[e],
               dstack'[c][i] = dstack'[e][j], dstack'[c][i] \in Frames
        PROVE  c = e /\ i = j
    <3>1. CASE i \in DOMAIN dstack[c] /\ j \in DOMAIN dstack[e]
      BY <1>1, <1>7, <2>1, <3>1 DEF FramesOwned
    <3>2. CASE i \notin DOMAIN dstack[c]
      BY <1>7, <2>1, <3>2 DEF Begun
    <3>3. CASE j \notin DOMAIN dstack[e]
      BY <1>7, <2>1, <3>3 DEF Begun
    <3> QED
      BY <3>1, <3>2, <3>3
  <2>2. ASSUME NEW f \in Frames, \A c \in AllCo : ~Begun(f, c)' PROVE holds'[f] = Empty
    <3>1. f # d
      <4>1. Len(dstack[runs]) + 1 \in DOMAIN dstack'[runs] /\ dstack'[runs][Len(dstack[runs]) + 1] = d
        BY <1>2, <1>4
      <4> QED
        BY <1>2, <2>2, <4>1 DEF Begun
    <3>2. \A c \in AllCo : ~Begun(f, c)
      BY <1>7, <2>2 DEF Begun
    <3> QED
      BY <1>1, <1>3, <3>1, <3>2, Constants DEF FramesOwned
  <2> QED
    BY <1>1, <2>1, <2>2 DEF FramesOwned
<1>9. ValuesSet'
  BY <1>1, <1>3 DEF ValuesSet
<1>10. DeadHaveNothing'
  BY <1>1, <1>2, <1>4, <1>5 DEF DeadHaveNothing
<1>11. OldSlots'
  <2> SUFFICES ASSUME NEW c \in AllCo, NEW m \in BNames
               PROVE  table'[c][m].lev <= blev /\ (blev = 1 => Lasting(m, table[c][m])')
    BY DEF OldSlots
  <2>1. table[c][m].lev <= blev /\ (blev = 1 => Lasting(m, table[c][m]))
    BY <1>1 DEF OldSlots
  <2>2. \A e \in AllDicts : bimage[e][m] = "own" /\ holds[e][m] = "own" => holds'[e][m] = "own"
    <3>1. CASE d \in Frames
      BY <1>1, <1>3, <3>1 DEF FramesOwned, Empty, None
    <3>2. CASE d \notin Frames
      BY <1>3, <3>2
    <3> QED
      BY <3>1, <3>2
  <2>3. CASE table'[c][m] = table[c][m]
    BY <2>1, <2>2, <2>3 DEF Lasting
  <2>4. CASE table'[c][m] = NoBinding
    BY <1>1, <2>4, Constants DEF Lasting, BindTypes
  <2> QED
    BY <1>5, <2>3, <2>4
<1>12. CacheAgrees'
  <2> SUFFICES ASSUME NEW c \in Alive, NEW m \in BNames PROVE Now(c, m)' \in {None, Top(holds', dstack'[c], m)}
    BY <1>2, Agrees
  <2>1. PICK g : g = holds'
    OBVIOUS
  <2>2. Top(g, dstack[c], m) = Top(holds, dstack[c], m)
    <3>1. \A i \in DOMAIN dstack[c] : dstack[c][i] \in AllDicts
      BY <1>2 DEF AllDicts
    <3>2. \A i \in DOMAIN dstack[c] : g[dstack[c][i]] = holds[dstack[c][i]]
      <4>1. CASE d \in Frames
        BY <1>2, <1>3, <2>1, <3>1, <4>1 DEF Begun
      <4>2. CASE d \notin Frames
        BY <1>3, <2>1, <3>1, <4>2
      <4> QED
        BY <4>1, <4>2
    <3>3. Has(g, LocalDict, m) <=> Has(holds, LocalDict, m)
      BY <1>2, <1>3, <2>1, Constants DEF Has
    <3>4. \A i \in DOMAIN dstack[c] : Has(g, dstack[c][i], m) <=> Has(holds, dstack[c][i], m)
      BY <3>2 DEF Has
    <3>5. dstack[c] \in Seq(BDicts)
      BY <1>2
    <3> QED
      BY <3>3, <3>4, <3>5, TopSame
  <2>3. Now(c, m) \in {None, Top(holds, dstack[c], m)}
    BY <1>1, Agreed
  <2>4. CASE c # runs
    <3>1. dstack'[c] = dstack[c]
      BY <1>2, <1>4, <2>4
    <3> QED
      BY <1>5, <2>1, <2>2, <2>3, <2>4, <3>1
  <2>5. CASE c = runs
    <3>1. Has(g, d, m) <=> h[m] = "own"
      BY <1>3, <2>1 DEF Has, Entries, None
    <3>2. Top(g, Append(dstack[c], d), m) = IF Has(g, d, m) THEN d ELSE Top(g, dstack[c], m)
      BY <1>2, TopPush
    <3>3. Top(g, dstack'[c], m) = IF h[m] = "own" THEN d ELSE Top(holds, dstack[c], m)
      BY <1>4, <2>2, <2>5, <3>1, <3>2
    <3>4. \/ Now(c, m)' = None
          \/ Now(c, m)' = Now(c, m) /\ h[m] # "own"
          \/ h[m] = "own" /\ Now(c, m)' = d
      BY <1>5, <2>5 DEF None
    <3> QED
      BY <2>1, <2>3, <3>3, <3>4
  <2> QED
    BY <2>4, <2>5
<1> QED
  BY <1>5, <1>6, <1>8, <1>9, <1>10, <1>11, <1>12 DEF BindInv

\* The topmost dictionary is taken off the stack of the running coroutine, and emptied if it is a frame.
LEMMA Popped ==
  ASSUME BindInv, dstack[runs] # << >>, NEW d, d = Last(dstack[runs]), clear_name_bindings({d}), UNCHANGED <<up, runs, blev, bimage>>,
         dstack' = [dstack EXCEPT ![runs] = Front(@)],
         holds' = IF d \in Frames THEN [holds EXCEPT ![d] = Empty] ELSE holds
  PROVE  BindInv'
<1>1. BindTypes /\ FramesOwned /\ ValuesSet /\ DeadHaveNothing /\ OldSlots /\ CacheAgrees /\ OneCacheAtATime
  BY DEF BindInv
<1>2. /\ runs \in AllCo /\ runs \in Alive /\ Alive \subseteq AllCo /\ Alive' = Alive
      /\ \A c \in AllCo : dstack[c] \in Seq(BDicts)
  BY <1>1, Constants DEF BindTypes, Alive, AllCo
<1>3. Front(dstack[runs]) \in Seq(BDicts) /\ d \in BDicts /\ d \in AllDicts /\ d # LocalDict
  BY <1>2, TopPop, Constants
<1>4. /\ holds' \in [AllDicts -> [BNames -> Entries]] /\ (d \in Frames => holds'[d] = Empty)
      /\ \A e \in AllDicts : e # d => holds'[e] = holds[e]
      /\ \A e \in AllDicts \ Frames : holds'[e] = holds[e]
  <2>1. Empty \in [BNames -> Entries]
    BY DEF Empty, Entries
  <2> QED
    BY <1>1, <1>3, <2>1 DEF BindTypes
<1>5. /\ dstack' \in [AllCo -> Seq(BDicts)] /\ dstack'[runs] = Front(dstack[runs])
      /\ \A c \in AllCo : c # runs => dstack'[c] = dstack[c]
  BY <1>1, <1>2, <1>3 DEF BindTypes
<1>6. /\ single' \in [BNames -> Slots] /\ table' \in [AllCo -> [BNames -> [slot : Slots, lev : {0, 1}]]]
      /\ OneCacheAtATime'
      /\ \A c \in AllCo, m \in BNames : table'[c][m] \in {table[c][m], NoBinding}
      /\ \A c \in Alive, m \in BNames :
           \/ Now(c, m)' = Now(c, m) /\ (Now(c, m) # d \/ holds[d][m] = None)
           \/ Now(c, m)' = None
  <2>1. CASE up = {}
    <3>1. single' = [n \in BNames |-> IF \E e \in {d} : n \in NameKeys(e) THEN None ELSE single[n]] /\ table' = table
      BY <2>1 DEF clear_name_bindings, Alone
    <3>2. \A m \in BNames : single'[m] = IF m \in NameKeys(d) THEN None ELSE single[m]
      BY <3>1
    <3>3. \A m \in BNames : m \notin NameKeys(d) => holds[d][m] = None
      <4>1. \A m \in BNames : holds[d][m] \in Entries
        BY <1>1, <1>3 DEF BindTypes
      <4> QED
        BY <4>1 DEF NameKeys, Entries
    <3> QED
      BY <1>1, <2>1, <3>1, <3>2, <3>3 DEF BindTypes, OneCacheAtATime, Alone, Now, Slots
  <2>2. CASE up # {}
    <3>1. table' = [c \in AllCo |-> [n \in BNames |->
              IF table[c][n].slot \in {d} /\ holds[table[c][n].slot][n] # "grown" THEN NoBinding ELSE table[c][n]]] /\ single' = single
      BY <2>2 DEF clear_name_bindings, Alone
    <3>2. \A m \in BNames : holds[d][m] # "grown"
      <4>1. \A m \in BNames : holds[d][m] \in Entries
        BY <1>1, <1>3 DEF BindTypes
      <4> QED
        BY <4>1 DEF Entries, None
    <3>3. /\ table' \in [AllCo -> [BNames -> [slot : Slots, lev : {0, 1}]]]
          /\ \A c \in AllCo, m \in BNames : table'[c][m] = IF table[c][m].slot = d THEN NoBinding ELSE table[c][m]
      BY <1>1, <3>1, <3>2, Constants DEF BindTypes
    <3>4. OneCacheAtATime' /\ single' \in [BNames -> Slots]
      BY <1>1, <2>2, <3>1 DEF BindTypes, OneCacheAtATime, Alone
    <3>5. \A c \in Alive, m \in BNames : Now(c, m) = table[c][m].slot /\ Now(c, m)' = table'[c][m].slot
      BY <2>2 DEF Now
    <3>6. \A c \in Alive, m \in BNames : Now(c, m)' = IF Now(c, m) = d THEN None ELSE Now(c, m)
      BY <1>2, <3>3, <3>5, Constants
    <3> QED
      BY <3>3, <3>4, <3>6
  <2> QED
    BY <2>1, <2>2
<1>7. BindTypes'
  BY <1>1, <1>2, <1>4, <1>5, <1>6 DEF BindTypes
<1>8. /\ \A c \in AllCo : \A i \in DOMAIN dstack'[c] : i \in DOMAIN dstack[c] /\ dstack'[c][i] = dstack[c][i]
      /\ \A c \in AllCo : \A i \in DOMAIN dstack[c] : i \in DOMAIN dstack'[c] \/ (c = runs /\ i = Len(dstack[c]) /\ dstack[c][i] = d)
      /\ Len(dstack[runs]) \in DOMAIN dstack[runs] /\ Len(dstack[runs]) \notin DOMAIN dstack'[runs]
      /\ dstack[runs][Len(dstack[runs])] = d
  BY <1>2, <1>5 DEF Front, Last
<1>9. FramesOwned'
  <2>1. \A c, e \in AllCo : \A i \in DOMAIN dstack'[c], j \in DOMAIN dstack'[e] :
          dstack'[c][i] = dstack'[e][j] /\ dstack'[c][i] \in Frames => c = e /\ i = j
    BY <1>1, <1>8 DEF FramesOwned
  <2>2. ASSUME NEW f \in Frames, \A c \in AllCo : ~Begun(f, c)' PROVE holds'[f] = Empty
    <3>1. CASE f = d
      BY <1>4, <2>2, <3>1
    <3>2. CASE f # d
      <4>1. \A c \in AllCo : ~Begun(f, c)
        BY <1>8, <2>2, <3>2 DEF Begun
      <4> QED
        BY <1>1, <1>4, <3>2, <4>1, Constants DEF FramesOwned
    <3> QED
      BY <3>1, <3>2
  <2> QED
    BY <1>1, <2>1, <2>2 DEF FramesOwned
<1>10. ValuesSet'
  BY <1>1, <1>4 DEF ValuesSet
<1>11. DeadHaveNothing'
  <2>1. ASSUME NEW c \in AllCo \ Alive PROVE dstack'[c] = << >> /\ table'[c] = NoTable
    <3>1. dstack'[c] = << >>
      BY <1>1, <1>2, <1>5 DEF DeadHaveNothing
    <3>2. \A m \in BNames : table'[c][m] = NoTable[m]
      BY <1>1, <1>6, Constants DEF DeadHaveNothing
    <3> QED
      BY <1>6, <3>1, <3>2, Constants
  <2> QED
    BY <1>2, <2>1 DEF DeadHaveNothing
<1>12. OldSlots'
  <2> SUFFICES ASSUME NEW c \in AllCo, NEW m \in BNames
               PROVE  table'[c][m].lev <= blev /\ (blev = 1 => Lasting(m, table[c][m])')
    BY DEF OldSlots
  <2>1. table[c][m].lev <= blev /\ (blev = 1 => Lasting(m, table[c][m]))
    BY <1>1 DEF OldSlots
  <2>2. \A e \in AllDicts : bimage[e][m] = "own" /\ holds[e][m] = "own" => holds'[e][m] = "own"
    <3>1. CASE d \in Frames
      BY <1>1, <1>4, <3>1 DEF FramesOwned, Empty, None
    <3>2. CASE d \notin Frames
      BY <3>2
    <3> QED
      BY <3>1, <3>2
  <2>3. CASE table'[c][m] = table[c][m]
    BY <2>1, <2>2, <2>3 DEF Lasting
  <2>4. CASE table'[c][m] = NoBinding
    BY <1>1, <2>4, Constants DEF Lasting, BindTypes
  <2> QED
    BY <1>6, <2>3, <2>4
<1>13. CacheAgrees'
  <2> SUFFICES ASSUME NEW c \in Alive, NEW m \in BNames PROVE Now(c, m)' \in {None, Top(holds', dstack'[c], m)}
    BY <1>2, Agrees
  <2>1. PICK g : g = holds'
    OBVIOUS
  <2>2. PICK u : u = dstack'[c]
    OBVIOUS
  <2>3. u \in Seq(BDicts) /\ dstack[c] \in Seq(BDicts)
    BY <1>2, <1>5, <2>2
  <2>4. Top(g, u, m) = Top(holds, u, m)
    <3>1. \A i \in DOMAIN u : u[i] \in AllDicts
      BY <2>3 DEF AllDicts
    <3>2. \A i \in DOMAIN u : g[u[i]] = holds[u[i]]
      <4>1. CASE d \in Frames
        <5>1. \A i \in DOMAIN u : u[i] # d
          BY <1>1, <1>2, <1>8, <2>2, <4>1 DEF FramesOwned
        <5> QED
          BY <1>4, <2>1, <3>1, <5>1
      <4>2. CASE d \notin Frames
        BY <2>1, <4>2
      <4> QED
        BY <4>1, <4>2
    <3>3. Has(g, LocalDict, m) <=> Has(holds, LocalDict, m)
      BY <1>3, <1>4, <2>1, Constants DEF Has
    <3>4. \A i \in DOMAIN u : Has(g, u[i], m) <=> Has(holds, u[i], m)
      BY <3>2 DEF Has
    <3> QED
      BY <2>3, <3>3, <3>4, TopSame
  <2>5. Now(c, m) \in {None, Top(holds, dstack[c], m)}
    BY <1>1, Agreed
  <2>6. CASE c # runs
    <3>1. u = dstack[c]
      BY <1>2, <1>5, <2>2, <2>6
    <3> QED
      BY <1>6, <2>1, <2>2, <2>4, <2>5, <3>1
  <2>7. CASE c = runs
    <3>1. u = Front(dstack[c]) /\ d = Last(dstack[c]) /\ dstack[c] # << >>
      BY <1>5, <2>2, <2>7
    <3>2. Top(holds, dstack[c], m) = IF Has(holds, d, m) THEN d ELSE Top(holds, u, m)
      BY <2>3, <3>1, TopPop
    <3>3. Has(holds, d, m) => holds[d][m] # None
      BY DEF Has
    <3>4. d # None
      BY <1>3, Constants
    <3> QED
      BY <1>6, <2>1, <2>2, <2>4, <2>5, <3>2, <3>3, <3>4
  <2> QED
    BY <2>6, <2>7
<1> QED
  BY <1>6, <1>7, <1>9, <1>10, <1>11, <1>12, <1>13 DEF BindInv

-----------------------------------------------------------------------------
(* The steps: the operators of the running coroutine *)

LEMMA LookupStep == ASSUME BindInv, NEW n \in BNames, Lookup(n) PROVE BindInv'
<1> DEFINE d == Search(runs, n)
<1>1. BindTypes
  BY DEF BindInv
<1>2. d = Top(holds, dstack[runs], n) /\ dstack[runs] \in Seq(BDicts)
  BY <1>1, SearchIsTop DEF BindTypes, Alive, AllCo
<1>3. d # None /\ SetBinding(n, d) /\ UNCHANGED <<holds, dstack, up, runs, blev, bimage>>
  BY DEF Lookup
<1> HIDE DEF d
<1>4. d \in AllDicts /\ Has(holds, d, n) /\ (d = LocalDict \/ \E i \in DOMAIN dstack[runs] : dstack[runs][i] = d)
  BY <1>2, <1>3, TopFound DEF Slots
<1>5. holds[d][n] = "own"
  BY <1>1, <1>4, HasOwn
<1>6. holds' = [holds EXCEPT ![d][n] = "own"]
  BY <1>1, <1>3, <1>4, <1>5 DEF BindTypes
<1>7. d \in Frames => \E c \in AllCo : Begun(d, c)
  BY <1>1, <1>4, Constants DEF BindTypes, Alive, Begun
<1>8. Top(holds', dstack[runs], n) = d
  BY <1>2, <1>3
<1>9. \A c \in Alive : c # runs => Now(c, n) \in {None, Top(holds', dstack[c], n)}
  BY <1>3, Agreed DEF BindInv
<1> QED
  BY <1>3, <1>4, <1>6, <1>7, <1>8, <1>9, NameBound

LEMMA PutStep ==
  ASSUME BindInv, Plainly, NEW d \in AllDicts, NEW n \in BNames, NEW k \in NewKinds, PutName(d, n, k) PROVE BindInv'
<1> DEFINE key == IF holds[d][n] \in {None, "unset"} THEN k ELSE holds[d][n]
<1>1. key = "own"
  <2>1. holds[d][n] \in Entries /\ k = "own"
    BY DEF BindInv, BindTypes, Plainly
  <2> QED
    BY <2>1 DEF Entries
<1>2. ClearBindings({n}) /\ holds' = [holds EXCEPT ![d][n] = key] /\ UNCHANGED <<dstack, up, runs, blev, bimage>>
  BY <1>1 DEF PutName
<1>3. d \in Frames => \E c \in AllCo : Begun(d, c)
  BY DEF PutName, Range, Begun
<1> QED
  BY <1>1, <1>2, <1>3, NameForgotten

LEMMA UndefStep == ASSUME BindInv, NEW d \in AllDicts, NEW n \in BNames, UndefName(d, n) PROVE BindInv'
<1>1. holds[d][n] \in Entries /\ holds[d][n] \notin {None, "unset"}
  BY DEF BindInv, BindTypes, UndefName, Found
<1>2. ClearBindings({n}) /\ holds' = [holds EXCEPT ![d][n] = None] /\ UNCHANGED <<dstack, up, runs, blev, bimage>>
  BY <1>1 DEF UndefName, Entries
<1>3. d \in Frames => \E c \in AllCo : Begun(d, c)
  BY <1>1 DEF BindInv, FramesOwned, Empty
<1> QED
  BY <1>2, <1>3, NameForgotten

\* The dictionary a new name goes into is no frame and one of those the running coroutine has begun.
LEMMA TargetIs ==
  ASSUME BindInv
  PROVE  Target \in AllDicts \ Frames /\ (Target = LocalDict \/ \E i \in DOMAIN dstack[runs] : dstack[runs][i] = Target)
<1>1. dstack[runs] \in Seq(BDicts)
  BY DEF BindInv, BindTypes, Alive, AllCo
<1> DEFINE T == {i \in DOMAIN Stack(dstack[runs]) : Stack(dstack[runs])[i] \notin Frames}
<1>2. T \subseteq 1..(Len(dstack[runs]) + 1) /\ Len(dstack[runs]) + 1 \in Nat /\ 1 \in T
  BY <1>1, StackOf, Constants
<1>3. PICK x \in T : \A y \in T : y <= x
  <2>1. T # {}
    BY <1>2
  <2> QED
    BY <1>2, <2>1, GreatestPlace
<1>4. Max(T) = x
  <2>1. T \subseteq Int
    BY <1>2
  <2> QED
    BY <1>3, <2>1 DEF Max
<1>5. Target = Stack(dstack[runs])[x]
  BY <1>4 DEF Target, Stack
<1> QED
  BY <1>1, <1>3, <1>5, StackOf

LEMMA StoreStep == ASSUME BindInv, Plainly, NEW n \in BNames, StoreName(n) PROVE BindInv'
<1>1. BindTypes /\ CacheAgrees
  BY DEF BindInv
<1>2. runs \in AllCo /\ runs \in Alive /\ Alive \subseteq AllCo /\ \A c \in AllCo : dstack[c] \in Seq(BDicts)
  BY <1>1 DEF BindTypes, Alive, AllCo
<1> DEFINE t == Top(holds, dstack[runs], n)
<1>3. Search(runs, n) = t
  BY SearchIsTop
<1> DEFINE d == IF t # None THEN t ELSE Target
<1>4. /\ (~Found(d, n) /\ ~SharedStore) => \A c \in (up \cup {MainCo}) \ {runs} : d \notin Range(dstack[c])
      /\ holds' = [holds EXCEPT ![d][n] = IF Found(d, n) THEN @ ELSE "own"]
      /\ IF holds[d][n] = "string" THEN UNCHANGED <<single, table>> ELSE SetBinding(n, d)
      /\ UNCHANGED <<dstack, up, runs, blev, bimage>>
  BY <1>3 DEF StoreName
<1>5. /\ d \in AllDicts /\ (d = LocalDict \/ \E i \in DOMAIN dstack[runs] : dstack[runs][i] = d)
      /\ t = None => d \notin Frames
  BY <1>2, TopFound, TargetIs DEF Slots
<1>6. \A e \in AllDicts : holds[e][n] \in Entries /\ (Has(holds, e, n) <=> holds[e][n] = "own")
  BY <1>1, HasOwn DEF BindTypes
<1>7. SetBinding(n, d) /\ UNCHANGED <<dstack, up, runs, blev, bimage>>
  <2>1. holds[d][n] # "string"
    BY <1>5, <1>6 DEF Entries, None
  <2> QED
    BY <1>4, <2>1
<1>8. holds' = [holds EXCEPT ![d][n] = "own"]
  BY <1>1, <1>4, <1>5, <1>6 DEF Found, Has, BindTypes
<1>9. d \in Frames => \E c \in AllCo : Begun(d, c)
  BY <1>2, <1>5, Constants DEF Begun
<1>10. PICK g : g = holds'
  OBVIOUS
<1>11. \A e \in AllDicts : Has(g, e, n) <=> (e = d \/ Has(holds, e, n))
  <2> HIDE DEF d
  <2>1. \A e \in AllDicts : g[e][n] = IF e = d THEN "own" ELSE holds[e][n]
    BY <1>1, <1>5, <1>8, <1>10 DEF BindTypes
  <2> QED
    BY <2>1 DEF Has, None
<1>12. CASE t # None
  <2>1. Has(holds, d, n)
    BY <1>2, <1>12, TopFound
  <2>2. \A e \in AllDicts : Has(g, e, n) <=> Has(holds, e, n)
    BY <1>11, <2>1
  <2>3. \A c \in AllCo : Top(g, dstack[c], n) = Top(holds, dstack[c], n)
    BY <1>2, <2>2, TopUnchanged
  <2>4. Top(holds', dstack[runs], n) = d
    BY <1>2, <1>10, <1>12, <2>3
  <2>5. \A c \in Alive : c # runs => Now(c, n) \in {None, Top(holds', dstack[c], n)}
    BY <1>1, <1>2, <1>10, <2>3, Agreed
  <2> HIDE DEF d
  <2> QED
    BY <1>5, <1>7, <1>8, <1>9, <2>4, <2>5, NameBound
<1>13. CASE t = None
  <2>1. ~Has(holds, LocalDict, n) /\ \A i \in DOMAIN dstack[runs] : ~Has(holds, dstack[runs][i], n)
    BY <1>2, <1>13, TopFound
  <2>2. Has(g, d, n) /\ ~Found(d, n)
    BY <1>5, <1>11, <2>1 DEF Found, Has
  <2>3. Top(g, dstack[runs], n) = d
    <3>1. d # LocalDict => ~Has(g, LocalDict, n)
      BY <1>11, <2>1, Constants
    <3>2. \A i \in DOMAIN dstack[runs] : dstack[runs][i] # d => ~Has(g, dstack[runs][i], n)
      <4>1. \A i \in DOMAIN dstack[runs] : dstack[runs][i] \in AllDicts
        BY <1>2 DEF AllDicts
      <4> QED
        BY <1>11, <2>1, <4>1
    <3>3. dstack[runs] \in Seq(BDicts)
      BY <1>2
    <3> HIDE DEF d
    <3> QED
      BY <1>5, <2>2, <3>1, <3>2, <3>3, TopOnly
  <2>4. ASSUME NEW c \in Alive, c # runs PROVE Now(c, n) \in {None, Top(g, dstack[c], n)}
    <3>1. \A i \in DOMAIN dstack[c] : dstack[c][i] # d /\ dstack[c][i] \in AllDicts
      <4>1. d \notin Range(dstack[c])
        BY <1>4, <2>2, <2>4 DEF Plainly, Alive
      <4>2. \A i \in DOMAIN dstack[c] : dstack[c][i] # d
        BY <4>1 DEF Range
      <4> QED
        BY <1>2, <4>2 DEF AllDicts
    <3>2. \A i \in DOMAIN dstack[c] : Has(holds, dstack[c][i], n) <=> Has(g, dstack[c][i], n)
      BY <1>11, <3>1
    <3>3. Now(c, n) \in {None, Top(holds, dstack[c], n)} /\ dstack[c] \in Seq(BDicts)
      BY <1>1, <1>2, Agreed
    <3>4. Top(holds, dstack[c], n) # None => Top(g, dstack[c], n) = Top(holds, dstack[c], n)
      BY <2>1, <3>2, <3>3, TopBottom
    <3> QED
      BY <3>3, <3>4
  <2>5. Top(holds', dstack[runs], n) = d
    BY <1>10, <2>3
  <2>6. \A c \in Alive : c # runs => Now(c, n) \in {None, Top(holds', dstack[c], n)}
    BY <1>10, <2>4
  <2> HIDE DEF d
  <2> QED
    BY <1>5, <1>7, <1>8, <1>9, <2>5, <2>6, NameBound
<1> QED
  BY <1>12, <1>13

LEMMA LocalDefStep == ASSUME BindInv, NEW n \in BNames, LocalDef(n) PROVE BindInv'
<1>1. BindTypes /\ CacheAgrees /\ FramesOwned
  BY DEF BindInv
<1>2. runs \in AllCo /\ runs \in Alive /\ Alive \subseteq AllCo /\ \A c \in AllCo : dstack[c] \in Seq(BDicts)
  BY <1>1 DEF BindTypes, Alive, AllCo
<1> DEFINE d == Last(dstack[runs])
<1>3. /\ dstack[runs] # << >> /\ d \in Frames /\ holds' = [holds EXCEPT ![d][n] = "own"] /\ SetBinding(n, d)
      /\ UNCHANGED <<dstack, up, runs, blev, bimage>>
  BY DEF LocalDef
<1>4. PICK g : g = holds'
  OBVIOUS
<1>5. Len(dstack[runs]) \in DOMAIN dstack[runs] /\ dstack[runs][Len(dstack[runs])] = d
  BY <1>2, <1>3 DEF Last
<1> HIDE DEF d
<1>6. d \in BDicts /\ d \in AllDicts /\ Begun(d, runs)
  BY <1>3, <1>5, Constants DEF Begun
<1>7. \A e \in AllDicts : Has(g, e, n) <=> (e = d \/ Has(holds, e, n))
  BY <1>1, <1>3, <1>4, <1>6 DEF Has, BindTypes, None
<1>8. Top(g, dstack[runs], n) = d
  <2>1. Top(g, dstack[runs], n) = IF Has(g, d, n) THEN d ELSE Top(g, Front(dstack[runs]), n)
    BY <1>2, <1>3, TopPop DEF d
  <2> QED
    BY <1>6, <1>7, <2>1
<1>9. ASSUME NEW c \in Alive, c # runs PROVE Now(c, n) \in {None, Top(g, dstack[c], n)}
  <2>1. \A i \in DOMAIN dstack[c] : dstack[c][i] # d /\ dstack[c][i] \in AllDicts
    <3>1. \A i \in DOMAIN dstack[c] : dstack[c][i] # d
      BY <1>1, <1>2, <1>3, <1>5, <1>9 DEF FramesOwned
    <3> QED
      BY <1>2, <3>1 DEF AllDicts
  <2>2. \A i \in DOMAIN dstack[c] : Has(holds, dstack[c][i], n) <=> Has(g, dstack[c][i], n)
    BY <1>7, <2>1
  <2>3. Has(holds, LocalDict, n) <=> Has(g, LocalDict, n)
    BY <1>6, <1>7, Constants
  <2>4. dstack[c] \in Seq(BDicts)
    BY <1>2
  <2>5. Top(holds, dstack[c], n) = Top(g, dstack[c], n)
    BY <2>2, <2>3, <2>4, TopSame
  <2> QED
    BY <1>1, <2>5, Agreed
<1>10. Top(holds', dstack[runs], n) = d /\ \A c \in Alive : c # runs => Now(c, n) \in {None, Top(holds', dstack[c], n)}
  BY <1>4, <1>8, <1>9
<1> QED
  BY <1>2, <1>3, <1>6, <1>10, NameBound

LEMMA BeginDictStep == ASSUME BindInv, NEW d \in BDicts, BeginDict(d) PROVE BindInv'
<1>1. BindTypes /\ d \in AllDicts
  BY Constants DEF BindInv
<1>2. /\ set_name_bindings(d, holds[d]) /\ UNCHANGED <<up, runs, blev, bimage>> /\ holds' = holds
      /\ dstack' = [dstack EXCEPT ![runs] = Append(@, d)] /\ d \notin Frames
  BY DEF BeginDict
<1>3. holds[d] \in [BNames -> Entries] /\ holds' = [holds EXCEPT ![d] = holds[d]]
  BY <1>1, <1>2 DEF BindTypes
<1> QED
  BY <1>2, <1>3, Pushed

LEMMA BeginLocalsStep ==
  ASSUME BindInv, NEW d \in BDicts, NEW p \in SUBSET BNames, NEW l \in SUBSET BNames, BeginLocals(d, p, l) PROVE BindInv'
<1> DEFINE h == [n \in BNames |-> IF n \in p THEN "own" ELSE IF n \in l THEN "unset" ELSE None]
<1>1. /\ set_name_bindings(d, h) /\ UNCHANGED <<up, runs, blev, bimage>> /\ holds' = [holds EXCEPT ![d] = h]
      /\ dstack' = [dstack EXCEPT ![runs] = Append(@, d)] /\ d \in Frames
      /\ \A c \in AllCo : d \notin Range(dstack[c])
  BY DEF BeginLocals
<1>2. h \in [BNames -> Entries]
  BY DEF Entries
<1>3. \A c \in AllCo : ~Begun(d, c)
  BY <1>1 DEF Range, Begun
<1> HIDE DEF h
<1> QED
  BY <1>1, <1>2, <1>3, Pushed

LEMMA EndDictStep == ASSUME BindInv, EndDict PROVE BindInv'
<1> DEFINE d == Last(dstack[runs])
<1>1. /\ dstack[runs] # << >> /\ clear_name_bindings({d}) /\ UNCHANGED <<up, runs, blev, bimage>>
      /\ dstack' = [dstack EXCEPT ![runs] = Front(@)] /\ holds' = holds /\ d \notin Frames
  BY DEF EndDict
<1>2. holds' = IF d \in Frames THEN [holds EXCEPT ![d] = Empty] ELSE holds
  BY <1>1
<1> QED
  BY <1>1, <1>2, Popped

LEMMA EndLocalsStep == ASSUME BindInv, EndLocals PROVE BindInv'
<1> DEFINE d == Last(dstack[runs])
<1>1. /\ dstack[runs] # << >> /\ clear_name_bindings({d}) /\ UNCHANGED <<up, runs, blev, bimage>>
      /\ dstack' = [dstack EXCEPT ![runs] = Front(@)] /\ holds' = [holds EXCEPT ![d] = Empty] /\ d \in Frames
  BY DEF EndLocals, Empty
<1>2. holds' = IF d \in Frames THEN [holds EXCEPT ![d] = Empty] ELSE holds
  BY <1>1
<1> QED
  BY <1>1, <1>2, Popped

-----------------------------------------------------------------------------
(* The steps: coroutines, save and restore *)

\* A first spawn empties the names' own cache, and nobody who is not alive has a table.
LEMMA SpawnStep == ASSUME BindInv, NEW e \in AllCo, SpawnCo(e) PROVE BindInv'
<1>1. BindTypes /\ FramesOwned /\ ValuesSet /\ DeadHaveNothing /\ OldSlots /\ CacheAgrees /\ OneCacheAtATime
  BY DEF BindInv
<1>2. /\ e \in BCo \ up /\ up' = up \cup {e} /\ UNCHANGED <<holds, dstack, runs, table, blev, bimage>>
      /\ single' = IF up = {} THEN Flushed ELSE single
  BY DEF SpawnCo, Alone
<1>3. single' = Empty
  <2>1. up # {} => single = Empty
    BY <1>1 DEF OneCacheAtATime, Alone, BindTypes, Empty
  <2> QED
    BY <1>2, <2>1 DEF Flushed, Empty
<1>4. BindTypes'
  BY <1>1, <1>2, <1>3 DEF BindTypes, Alive, Empty, Slots
<1>5. FramesOwned' /\ ValuesSet' /\ OldSlots'
  BY <1>1, <1>2 DEF FramesOwned, ValuesSet, OldSlots, Begun, Lasting
<1>6. DeadHaveNothing'
  BY <1>1, <1>2 DEF DeadHaveNothing, Alive
<1>7. OneCacheAtATime'
  BY <1>2, <1>3 DEF OneCacheAtATime, Alone, Empty
<1>8. CacheAgrees'
  <2> SUFFICES ASSUME NEW c \in Alive', NEW m \in BNames PROVE Now(c, m)' \in {None, Top(holds', dstack'[c], m)}
    BY Agrees
  <2>1. Now(c, m)' = table[c][m].slot
    BY <1>2 DEF Now
  <2>2. CASE c \in Alive /\ up # {}
    BY <1>1, <1>2, <2>1, <2>2, Agreed DEF Now
  <2>3. CASE c \notin Alive \/ up = {}
    <3>1. c \in AllCo
      BY <1>1, <1>2, Constants DEF BindTypes, Alive
    <3>2. table[c] = NoTable
      BY <1>1, <2>3, <3>1 DEF DeadHaveNothing, OneCacheAtATime, Alone
    <3> QED
      BY <2>1, <3>2, Constants
  <2> QED
    BY <2>2, <2>3
<1> QED
  BY <1>4, <1>5, <1>6, <1>7, <1>8 DEF BindInv

LEMMA SwitchStep == ASSUME BindInv, NEW e \in AllCo, SwitchTo(e) PROVE BindInv'
<1>1. BindTypes /\ FramesOwned /\ ValuesSet /\ DeadHaveNothing /\ OldSlots /\ CacheAgrees /\ OneCacheAtATime
  BY DEF BindInv
<1>2. runs' \in Alive /\ UNCHANGED <<holds, dstack, up, single, table, blev, bimage>>
  BY DEF SwitchTo, Alive
<1>3. BindTypes' /\ FramesOwned' /\ ValuesSet' /\ OldSlots' /\ DeadHaveNothing' /\ OneCacheAtATime'
  BY <1>1, <1>2 DEF BindTypes, FramesOwned, ValuesSet, OldSlots, DeadHaveNothing, OneCacheAtATime, Begun, Lasting, Alive, Alone
<1>4. CacheAgrees'
  <2>1. Alive' = Alive /\ \A c \in Alive, m \in BNames : Now(c, m)' = Now(c, m)
    BY <1>2 DEF Alive, Now
  <2>2. \A c \in Alive', m \in BNames : Now(c, m)' \in {None, Top(holds', dstack'[c], m)}
    BY <1>1, <1>2, <2>1, Agreed
  <2> QED
    BY <2>2, Agrees
<1> QED
  BY <1>3, <1>4 DEF BindInv

\* Who dies takes its frames along; no cache of another has a slot in them.
LEMMA DiesStep == ASSUME BindInv, CoDies PROVE BindInv'
<1>1. BindTypes /\ FramesOwned /\ ValuesSet /\ DeadHaveNothing /\ OldSlots /\ CacheAgrees /\ OneCacheAtATime
  BY DEF BindInv
<1> DEFINE mine == Range(dstack[runs])
           forgot == [c \in AllCo |-> [n \in BNames |->
                        IF table[c][n].slot \in mine /\ holds[table[c][n].slot][n] # "grown" THEN NoBinding ELSE table[c][n]]]
<1>2. /\ runs # MainCo /\ up' = up \ {runs} /\ runs' = MainCo /\ UNCHANGED <<single, blev, bimage>>
      /\ table' = IF up = {runs} THEN [c \in AllCo |-> NoTable] ELSE [forgot EXCEPT ![runs] = NoTable]
      /\ holds' = [d \in AllDicts |-> IF d \in mine \cap Frames THEN [n \in BNames |-> None] ELSE holds[d]]
      /\ dstack' = [dstack EXCEPT ![runs] = << >>]
  BY DEF CoDies
<1>3. /\ runs \in AllCo /\ runs \in up /\ up # {} /\ Alive \subseteq AllCo /\ Alive' = Alive \ {runs}
      /\ \A c \in AllCo : dstack[c] \in Seq(BDicts)
      /\ \A d : d \in mine <=> Begun(d, runs)
  BY <1>1, <1>2, Constants DEF BindTypes, Alive, AllCo, Range, Begun
<1>4. /\ holds' \in [AllDicts -> [BNames -> Entries]]
      /\ \A d \in AllDicts : holds'[d] = IF Begun(d, runs) /\ d \in Frames THEN Empty ELSE holds[d]
  <2>1. Empty \in [BNames -> Entries]
    BY DEF Empty, Entries
  <2>2. \A d \in AllDicts : holds'[d] = IF Begun(d, runs) /\ d \in Frames THEN Empty ELSE holds[d]
    BY <1>2, <1>3 DEF Empty
  <2>3. holds' = [d \in AllDicts |-> holds'[d]]
    BY <1>2
  <2>4. \A d \in AllDicts : holds'[d] \in [BNames -> Entries]
    BY <1>1, <2>1, <2>2 DEF BindTypes
  <2> QED
    BY <2>2, <2>3, <2>4
<1>5. /\ dstack' \in [AllCo -> Seq(BDicts)] /\ dstack'[runs] = << >> /\ \A c \in AllCo : c # runs => dstack'[c] = dstack[c]
  BY <1>1, <1>2, <1>3 DEF BindTypes
<1>6. /\ table' \in [AllCo -> [BNames -> [slot : Slots, lev : {0, 1}]]] /\ table'[runs] = NoTable
      /\ up' = {} => \A c \in AllCo : table'[c] = NoTable
      /\ \A c \in AllCo, m \in BNames : table'[c][m] \in {table[c][m], NoBinding}
  <2>1. forgot \in [AllCo -> [BNames -> [slot : Slots, lev : {0, 1}]]]
    BY <1>1, Constants DEF BindTypes
  <2>2. \A c \in AllCo, m \in BNames : forgot[c][m] \in {table[c][m], NoBinding}
    OBVIOUS
  <2> HIDE DEF forgot
  <2> QED
    BY <1>2, <1>3, <2>1, <2>2, Constants
<1>7. /\ single \in [BNames -> Slots] /\ \A m \in BNames : single[m] = None
      /\ OneCacheAtATime'
  BY <1>1, <1>2, <1>3, <1>6 DEF BindTypes, OneCacheAtATime, Alone
<1>8. BindTypes'
  BY <1>1, <1>2, <1>4, <1>5, <1>6 DEF BindTypes, Alive
<1>9. FramesOwned'
  <2>1. \A c \in AllCo : \A i \in DOMAIN dstack'[c] : c # runs /\ i \in DOMAIN dstack[c] /\ dstack'[c][i] = dstack[c][i]
    BY <1>5
  <2>2. \A c, e \in AllCo : \A i \in DOMAIN dstack'[c], j \in DOMAIN dstack'[e] :
          dstack'[c][i] = dstack'[e][j] /\ dstack'[c][i] \in Frames => c = e /\ i = j
    BY <1>1, <2>1 DEF FramesOwned
  <2>3. ASSUME NEW f \in Frames, \A c \in AllCo : ~Begun(f, c)' PROVE holds'[f] = Empty
    <3>1. CASE Begun(f, runs)
      BY <1>4, <3>1, Constants
    <3>2. CASE ~Begun(f, runs)
      <4>1. \A c \in AllCo : ~Begun(f, c)
        BY <1>5, <2>3, <3>2 DEF Begun
      <4> QED
        BY <1>1, <1>4, <4>1, Constants DEF FramesOwned
    <3> QED
      BY <3>1, <3>2
  <2> QED
    BY <1>1, <1>2, <2>2, <2>3 DEF FramesOwned
<1>10. ValuesSet'
  BY <1>1, <1>2, <1>4 DEF ValuesSet
<1>11. DeadHaveNothing'
  <2>1. ASSUME NEW c \in AllCo, c \notin Alive' PROVE dstack'[c] = << >> /\ table'[c] = NoTable
    <3>1. CASE c = runs
      BY <1>5, <1>6, <3>1
    <3>2. CASE c # runs
      <4>1. c \notin Alive
        BY <1>3, <2>1, <3>2
      <4>2. dstack'[c] = << >>
        BY <1>1, <1>5, <3>2, <4>1 DEF DeadHaveNothing
      <4>3. \A m \in BNames : table'[c][m] = NoTable[m]
        BY <1>1, <1>6, <4>1, Constants DEF DeadHaveNothing
      <4> QED
        BY <1>6, <4>2, <4>3, Constants
    <3> QED
      BY <3>1, <3>2
  <2> QED
    BY <2>1 DEF DeadHaveNothing
<1>12. OldSlots'
  <2> SUFFICES ASSUME NEW c \in AllCo, NEW m \in BNames
               PROVE  table'[c][m].lev <= blev /\ (blev = 1 => Lasting(m, table[c][m])')
    BY <1>2 DEF OldSlots
  <2>1. table[c][m].lev <= blev /\ (blev = 1 => Lasting(m, table[c][m]))
    BY <1>1 DEF OldSlots
  <2>2. \A e \in AllDicts : bimage[e][m] = "own" /\ holds[e][m] = "own" => holds'[e][m] = "own"
    BY <1>1, <1>4 DEF FramesOwned, Empty, None
  <2>3. CASE table'[c][m] = table[c][m]
    BY <1>2, <2>1, <2>2, <2>3 DEF Lasting
  <2>4. CASE table'[c][m] = NoBinding
    BY <1>1, <2>4, Constants DEF Lasting, BindTypes
  <2> QED
    BY <1>6, <2>3, <2>4, SMTT(30)
<1>13. CacheAgrees'
  <2> SUFFICES ASSUME NEW c \in Alive', NEW m \in BNames PROVE Now(c, m)' \in {None, Top(holds', dstack'[c], m)}
    BY Agrees
  <2>1. c \in Alive /\ c # runs /\ c \in AllCo
    BY <1>3
  <2>2. PICK g : g = holds'
    OBVIOUS
  <2>3. dstack'[c] = dstack[c] /\ dstack[c] \in Seq(BDicts)
    BY <1>3, <1>5, <2>1
  <2>4. Top(g, dstack[c], m) = Top(holds, dstack[c], m)
    <3>1. \A i \in DOMAIN dstack[c] : g[dstack[c][i]] = holds[dstack[c][i]]
      <4>1. \A i \in DOMAIN dstack[c] : dstack[c][i] \in Frames => ~Begun(dstack[c][i], runs)
        BY <1>1, <1>3, <2>1 DEF FramesOwned, Begun
      <4>2. \A i \in DOMAIN dstack[c] : dstack[c][i] \in AllDicts
        BY <2>3 DEF AllDicts
      <4> QED
        BY <1>4, <2>2, <4>1, <4>2
    <3>2. Has(g, LocalDict, m) <=> Has(holds, LocalDict, m)
      BY <1>4, <2>2, Constants DEF Has
    <3>3. \A i \in DOMAIN dstack[c] : Has(g, dstack[c][i], m) <=> Has(holds, dstack[c][i], m)
      BY <3>1 DEF Has
    <3> QED
      BY <2>3, <3>2, <3>3, TopSame
  <2>5. Now(c, m)' \in {None, Now(c, m)}
    BY <1>2, <1>3, <1>6, <1>7, <2>1, Constants DEF Now
  <2>6. Now(c, m) \in {None, Top(holds, dstack[c], m)}
    BY <1>1, <2>1, Agreed
  <2> QED
    BY <2>2, <2>3, <2>4, <2>5, <2>6
<1> QED
  BY <1>7, <1>8, <1>9, <1>10, <1>11, <1>12, <1>13 DEF BindInv


\* What is cached when a save is made is in the image the save keeps.
LEMMA SaveStep == ASSUME BindInv, SaveBindings PROVE BindInv'
<1>1. BindTypes /\ FramesOwned /\ ValuesSet /\ DeadHaveNothing /\ OldSlots /\ CacheAgrees /\ OneCacheAtATime
  BY DEF BindInv
<1>2. /\ blev = 0 /\ blev' = 1 /\ bimage' = holds /\ UNCHANGED <<holds, dstack, up, runs, single, table>>
      /\ \A d \in Frames, c \in AllCo : d \notin Range(dstack[c])
  BY DEF SaveBindings
<1>3. BindTypes' /\ DeadHaveNothing' /\ OneCacheAtATime' /\ ValuesSet'
  BY <1>1, <1>2 DEF BindTypes, DeadHaveNothing, OneCacheAtATime, ValuesSet, Alive, Alone
<1>4. FramesOwned'
  <2>1. \A d \in Frames, c \in AllCo : ~Begun(d, c)
    BY <1>2 DEF Begun, Range
  <2>2. \A d \in Frames : bimage'[d] = Empty
    BY <1>1, <1>2, <2>1 DEF FramesOwned
  <2> QED
    BY <1>1, <1>2, <2>2 DEF FramesOwned, Begun
<1>5. CacheAgrees'
  <2>1. Alive' = Alive /\ \A c \in Alive, m \in BNames : Now(c, m)' = Now(c, m)
    BY <1>2 DEF Alive, Now
  <2>2. \A c \in Alive', m \in BNames : Now(c, m)' \in {None, Top(holds', dstack'[c], m)}
    BY <1>1, <1>2, <2>1, Agreed
  <2> QED
    BY <2>2, Agrees
<1>6. OldSlots'
  <2> SUFFICES ASSUME NEW c \in AllCo, NEW m \in BNames, table[c][m].slot # None
               PROVE  holds[table[c][m].slot][m] = "own"
    <3>1. \A c \in AllCo, m \in BNames : table[c][m].lev <= 1
      BY <1>1 DEF BindTypes
    <3> QED
      BY <1>2, <3>1 DEF OldSlots, Lasting
  <2>1. table[c] # NoTable
    BY Constants
  <2>2. c \in Alive /\ up # {}
    BY <1>1, <2>1 DEF DeadHaveNothing, OneCacheAtATime, Alone
  <2>3. table[c][m].slot = Top(holds, dstack[c], m)
    BY <1>1, <2>2, Agreed DEF Now
  <2>4. dstack[c] \in Seq(BDicts)
    BY <1>1 DEF BindTypes
  <2>5. Has(holds, table[c][m].slot, m)
    BY <2>3, <2>4, TopFound
  <2>6. table[c][m].slot \in AllDicts
    BY <1>1 DEF BindTypes, Slots
  <2> QED
    BY <1>1, <2>5, <2>6, HasOwn
<1> QED
  BY <1>3, <1>4, <1>5, <1>6 DEF BindInv

\* What a restore leaves cached is where it was, and nothing that was put since the save is above it.
LEMMA RestoreStep == ASSUME BindInv, RestoreBindings PROVE BindInv'
<1>1. BindTypes /\ FramesOwned /\ ValuesSet /\ DeadHaveNothing /\ OldSlots /\ CacheAgrees /\ OneCacheAtATime
  BY DEF BindInv
<1>2. /\ blev = 1 /\ blev' = 0 /\ holds' = bimage /\ UNCHANGED <<dstack, up, runs, bimage>>
      /\ IF up = {} THEN single' = Flushed /\ UNCHANGED table
         ELSE /\ table' = [c \in AllCo |-> [n \in BNames |-> IF table[c][n].lev >= 1 THEN NoBinding ELSE table[c][n]]]
              /\ UNCHANGED single
  BY DEF RestoreBindings, Alone
<1>3. /\ table' \in [AllCo -> [BNames -> [slot : Slots, lev : {0, 1}]]]
      /\ \A c \in AllCo, m \in BNames : table'[c][m] \in {table[c][m], NoBinding} /\ table'[c][m].lev = 0
  <2>1. CASE up = {}
    <3>1. \A c \in AllCo, m \in BNames : table[c][m] = NoBinding
      BY <1>1, <2>1, Constants DEF OneCacheAtATime, Alone
    <3> QED
      BY <1>1, <1>2, <2>1, <3>1, Constants DEF BindTypes
  <2>2. CASE up # {}
    <3>1. table' = [c \in AllCo |-> [n \in BNames |-> IF table[c][n].lev >= 1 THEN NoBinding ELSE table[c][n]]]
      BY <1>2, <2>2
    <3>2. table' \in [AllCo -> [BNames -> [slot : Slots, lev : {0, 1}]]]
      BY <1>1, <3>1, Constants DEF BindTypes
    <3>3. \A c \in AllCo, m \in BNames : table[c][m].lev \in {0, 1}
      BY <1>1 DEF BindTypes
    <3> QED
      BY <3>1, <3>2, <3>3, Constants
  <2> QED
    BY <2>1, <2>2
<1>4. single' \in [BNames -> Slots] /\ (up = {} => \A m \in BNames : single'[m] = None) /\ (up # {} => single' = single)
  BY <1>1, <1>2 DEF BindTypes, Flushed, Slots
<1>5. BindTypes'
  BY <1>1, <1>2, <1>3, <1>4 DEF BindTypes, Alive
<1>6. FramesOwned' /\ ValuesSet'
  BY <1>1, <1>2 DEF FramesOwned, ValuesSet, Begun
<1>7. DeadHaveNothing'
  <2>1. ASSUME NEW c \in AllCo \ Alive PROVE table'[c] = NoTable
    <3>1. \A m \in BNames : table'[c][m] = NoTable[m]
      BY <1>1, <1>3, Constants DEF DeadHaveNothing
    <3> QED
      BY <1>3, <3>1, Constants
  <2> QED
    BY <1>1, <1>2, <2>1 DEF DeadHaveNothing, Alive
<1>8. OldSlots'
  BY <1>2, <1>3 DEF OldSlots
<1>9. OneCacheAtATime'
  BY <1>1, <1>2, <1>4 DEF OneCacheAtATime, Alone
<1>10. CacheAgrees'
  <2> SUFFICES ASSUME NEW c \in Alive, NEW m \in BNames, Now(c, m)' # None PROVE Now(c, m)' = Top(holds', dstack'[c], m)
    BY <1>2, Agrees DEF Alive
  <2>1. c \in AllCo /\ dstack[c] \in Seq(BDicts)
    BY <1>1 DEF BindTypes, Alive, AllCo
  <2>2. up # {} /\ Now(c, m)' = table'[c][m].slot
    BY <1>2, <1>4 DEF Now
  <2>3. table'[c][m] = table[c][m] /\ table[c][m].lev = 0 /\ table[c][m].slot # None
    BY <1>3, <2>1, <2>2, Constants
  <2>4. table[c][m].slot = Top(holds, dstack[c], m)
    BY <1>1, <2>2, <2>3, Agreed DEF Now
  <2>5. /\ bimage[table[c][m].slot][m] = "own"
        /\ \A e \in AllDicts : bimage[e][m] = "own" => holds[e][m] = "own"
    BY <1>1, <1>2, <2>1, <2>3 DEF OldSlots, Lasting
  <2>6. /\ Has(bimage, Top(holds, dstack[c], m), m)
        /\ \A e \in AllDicts : Has(bimage, e, m) => Has(holds, e, m)
    BY <1>1, <2>4, <2>5, HasOwn DEF Has, None
  <2>7. Top(bimage, dstack[c], m) = Top(holds, dstack[c], m)
    BY <2>1, <2>3, <2>4, <2>6, TopLess
  <2> QED
    BY <1>2, <2>2, <2>3, <2>4, <2>7
<1> QED
  BY <1>5, <1>6, <1>7, <1>8, <1>9, <1>10 DEF BindInv

-----------------------------------------------------------------------------
(* The theorem *)

LEMMA BindStart == BindInit => BindInv
<1> SUFFICES ASSUME BindInit PROVE BindInv
  OBVIOUS
<1>1. /\ holds = [d \in AllDicts |-> [n \in BNames |-> None]] /\ dstack = [c \in AllCo |-> << >>] /\ up = {} /\ runs = MainCo
      /\ single = [n \in BNames |-> None] /\ table = [c \in AllCo |-> NoTable] /\ blev = 0 /\ bimage = holds
  BY DEF BindInit
<1>2. BindTypes
  <2>1. << >> \in Seq(BDicts)
    OBVIOUS
  <2>2. holds \in [AllDicts -> [BNames -> Entries]]
    BY <1>1 DEF Entries
  <2> QED
    BY <1>1, <2>1, <2>2, Constants DEF BindTypes, Alive, Slots
<1>3. \A d \in AllDicts : holds[d] = Empty /\ bimage[d] = Empty
  BY <1>1 DEF Empty
<1>4. FramesOwned
  BY <1>1, <1>3, Constants DEF FramesOwned
<1>5. ValuesSet /\ DeadHaveNothing
  BY <1>1, <1>3 DEF ValuesSet, DeadHaveNothing, Empty, None
<1>6. OldSlots
  BY <1>1, Constants DEF OldSlots, Lasting
<1>7. CacheAgrees /\ OneCacheAtATime
  BY <1>1 DEF CacheAgrees, OneCacheAtATime, Cached, Alone
<1> QED
  BY <1>2, <1>4, <1>5, <1>6, <1>7 DEF BindInv

LEMMA BindSteps == BindInv /\ Plainly /\ [BindNext]_bindVars => BindInv'
<1> SUFFICES ASSUME BindInv, Plainly, [BindNext]_bindVars PROVE BindInv'
  OBVIOUS
<1>1. ASSUME NEW n \in BNames, Lookup(n) \/ StoreName(n) \/ LocalDef(n) PROVE BindInv'
  BY <1>1, LookupStep, StoreStep, LocalDefStep
<1>2. ASSUME NEW d \in AllDicts, NEW n \in BNames, UndefName(d, n) \/ PersistName(d, n) PROVE BindInv'
  BY <1>2, UndefStep DEF PersistName, Plainly
<1>3. ASSUME NEW d \in AllDicts, NEW n \in BNames, NEW k \in NewKinds, PutName(d, n, k) PROVE BindInv'
  BY <1>3, PutStep
<1>4. ASSUME NEW d \in BDicts, BeginDict(d) PROVE BindInv'
  BY <1>4, BeginDictStep
<1>5. ASSUME NEW d \in BDicts, NEW p \in SUBSET BNames, NEW l \in SUBSET BNames, BeginLocals(d, p, l) PROVE BindInv'
  BY <1>5, BeginLocalsStep
<1>6. CASE EndDict \/ EndLocals
  BY <1>6, EndDictStep, EndLocalsStep
<1>7. CASE CoDies
  BY <1>7, DiesStep
<1>8. CASE SaveBindings \/ RestoreBindings
  BY <1>8, SaveStep, RestoreStep
<1>9. ASSUME NEW c \in AllCo, SpawnCo(c) \/ SwitchTo(c) PROVE BindInv'
  BY <1>9, SpawnStep, SwitchStep
<1>10. CASE UNCHANGED bindVars
  <2>1. Alive' = Alive /\ \A c \in Alive, m \in BNames : Now(c, m)' = Now(c, m)
    BY <1>10 DEF bindVars, Alive, Now
  <2>2. CacheAgrees /\ \A c \in Alive, m \in BNames : Now(c, m) \in {None, Top(holds, dstack[c], m)}
    BY Agreed DEF BindInv
  <2>3. CacheAgrees'
    BY <1>10, <2>1, <2>2, Agrees DEF bindVars
  <2>4. BindTypes' /\ FramesOwned' /\ ValuesSet' /\ DeadHaveNothing' /\ OldSlots' /\ OneCacheAtATime'
    BY <1>10 DEF BindInv, BindTypes, FramesOwned, ValuesSet, DeadHaveNothing, OldSlots, OneCacheAtATime, bindVars,
                 Alive, Alone, Begun, Lasting
  <2> QED
    BY <2>3, <2>4 DEF BindInv
<1> QED
  BY <1>1, <1>2, <1>3, <1>4, <1>5, <1>6, <1>7, <1>8, <1>9, <1>10 DEF BindNext

\* A cached binding is always the slot a search of the dictionary stack would find, for every coroutine, and the
\* caches of the two eras never coexist (Name::m_binding, m_binding_table): whatever is defined, removed, begun,
\* ended, spawned, saved or restored, if names are created in the block of their dictionary.
THEOREM BindingCorrect == ASSUME Plainly PROVE BindSpec => []BindingSound
<1>1. BindInv /\ [BindNext]_bindVars => BindInv'
  BY BindSteps
<1>2. BindInv => BindingSound
  BY DEF BindInv, BindingSound
<1> QED
  BY <1>1, <1>2, BindStart, PTL DEF BindSpec

=============================================================================

---------------------------- MODULE OptionFlowProofs ----------------------------
(***************************************************************************)
(* Theorems about OptionFlow, for any objects, databases, families and     *)
(* settings and alists of any length.                                      *)
(***************************************************************************)
EXTENDS OptionFlow, WellFoundedInduction, TLAPS

\* Everything has its settings in a place of its own.
Homes ==
    /\ \A x \in Opt \cup Db : home[x] \in {NULL, x}
    /\ \A d \in open : home[d] = d

\* Nothing in use was destroyed, and nothing was destroyed that was never made.
Kept ==
    /\ named \cap freed = {} /\ open \cap freed = {}
    /\ \A o \in Opt \cap freed : home[o] # NULL

\* Objects, databases and their files have the settings that were asked for.
Meant ==
    /\ \A x \in named \cup open : value[x] = meant[x]
    /\ \A d \in Db : file[d] # NULL =>
          file[d].main = meant[d] /\ file[d].family = family[d]

\* The pairs rocksdb-set-options has copied are pairs.
Copied == call # NULL => \A i \in 1 .. call.done : call.alist[i] # NULL

IInv == TypeOK /\ Homes /\ Kept /\ Meant /\ Copied

-------------------------------------------------------------------------------
(* Lists and settings *)

\* A list of places has a last one.
LEMMA GreatestIndex ==
    ASSUME NEW n \in Nat, NEW T \in SUBSET (1 .. n), T # {}
    PROVE  \E i \in T : \A j \in T : j <= i
<1> DEFINE R == {ss \in Nat \X Nat : ss[1] < ss[2]}
           U == {n - i : i \in T}
<1>1. IsWellFoundedOn(R, Nat)
  BY NatLessThanWellFounded DEF OpToRel
<1>2. U \subseteq Nat /\ U # {}
  <2>1. \A i \in T : n - i \in Nat
    OBVIOUS
  <2> QED
    BY <2>1
<1>3. PICK u \in U : \A y \in U : ~(<<y, u>> \in R)
  <2> HIDE DEF R, U
  <2> QED
    BY <1>1, <1>2, WFMin
<1>4. \A y \in U : ~(y < u)
  BY <1>2, <1>3
<1>5. PICK i \in T : u = n - i
  OBVIOUS
<1>6. \A j \in T : ~(n - j < n - i)
  BY <1>4, <1>5
<1> QED
  BY <1>6

LEMMA OverSettings ==
    ASSUME NEW f, NEW t \in Settings, DOMAIN f \subseteq Key,
           \A k \in DOMAIN f : f[k] \in Val
    PROVE  Over(f, t) \in Settings
<1>1. Over(f, t) = [k \in Key |-> IF k \in DOMAIN f THEN f[k] ELSE t[k]]
  BY DEF Over, Settings
<1> QED
  BY <1>1 DEF Settings

\* The string of an object says all of its settings.
LEMMA TextIsAll ==
    ASSUME NEW s \in Settings
    PROVE  Text(s) = s
<1>1. Text(s) = [k \in Key |-> s[k]]
  BY DEF Text, Over, Restrict, Key
<1> QED
  BY <1>1 DEF Settings

\* Alists are sequences of elements.
LEMMA AlistIsSeq ==
    ASSUME NEW alist \in Alist
    PROVE  /\ Len(alist) \in Nat /\ DOMAIN alist = 1 .. Len(alist)
           /\ Len(alist) <= MaxPairs
           /\ \A i \in DOMAIN alist : alist[i] \in Pair
<1>1. PICK n \in 0 .. MaxPairs : alist \in [1 .. n -> Pair]
  BY DEF Alist
<1>2. n \in Nat
  BY BoundAssumption
<1>3. alist \in Seq(Pair) /\ Len(alist) = n
  BY <1>1, <1>2
<1>4. n <= MaxPairs
  BY BoundAssumption
<1> QED
  BY <1>3, <1>4

\* What an alist without bad elements says of a setting: the last value given.
LEMMA LastGiven ==
    ASSUME NEW alist \in Alist, \A i \in DOMAIN alist : alist[i] # NULL,
           NEW k \in KeysOf(alist)
    PROVE  /\ PlaceOf(alist, k) \in DOMAIN alist
           /\ alist[PlaceOf(alist, k)][1] = k
           /\ \A j \in DOMAIN alist : alist[j][1] = k => j <= PlaceOf(alist, k)
           /\ k \in Key
           /\ alist[PlaceOf(alist, k)] = <<k, alist[PlaceOf(alist, k)][2]>>
           /\ alist[PlaceOf(alist, k)][2] \in Val
<1> DEFINE T == {j \in DOMAIN alist : alist[j][1] = k}
<1>1. /\ Len(alist) \in Nat /\ DOMAIN alist = 1 .. Len(alist)
      /\ \A i \in DOMAIN alist : alist[i] \in Key \X Val
  BY AlistIsSeq, PairAssumption
<1>2. T # {} /\ T \in SUBSET (1 .. Len(alist))
  BY <1>1 DEF KeysOf
<1>3. PICK i \in T : \A j \in T : j <= i
  <2> HIDE DEF T
  <2> QED
    BY <1>1, <1>2, GreatestIndex
<1>4. /\ i \in DOMAIN alist /\ alist[i][1] = k
      /\ \A j \in DOMAIN alist : j > i => alist[j][1] # k
  BY <1>1, <1>3
<1>5. /\ PlaceOf(alist, k) \in DOMAIN alist
      /\ alist[PlaceOf(alist, k)][1] = k
      /\ \A j \in DOMAIN alist : j > PlaceOf(alist, k) => alist[j][1] # k
  BY <1>4 DEF PlaceOf
<1>6. \A j \in DOMAIN alist : alist[j][1] = k => j <= PlaceOf(alist, k)
  BY <1>1, <1>5
<1>7. PICK p \in Key \X Val : p = alist[PlaceOf(alist, k)]
  BY <1>1, <1>5
<1> QED
  BY <1>5, <1>6, <1>7

-------------------------------------------------------------------------------
(* Objects made from others *)

\* What every binding that returns a new object does: it has its own place, and
\* there the settings that were asked for.
Makes ==
    \E o \in Opt, s \in Settings :
        /\ home[o] = NULL
        /\ home' = [home EXCEPT ![o] = o]
        /\ value' = [value EXCEPT ![o] = s]
        /\ named' = named \cup {o}
        /\ meant' = [meant EXCEPT ![o] = s]
        /\ UNCHANGED <<freed, open, family, file, call>>

LEMMA MakeMakes ==
    ASSUME NEW o \in Opt, NEW from, NEW s \in Settings, Make(o, from, s, s),
           UNCHANGED <<freed, open, family, file, call>>
    PROVE  Makes
BY DEF Make, Home, Makes

\* The settings of what is in use are those it was asked for.
LEMMA OfIsMeant ==
    ASSUME IInv, NEW x \in named \cup open
    PROVE  Of(x) = meant[x] /\ Of(x) \in Settings /\ home[x] = x
<1>1. x \in Opt \cup Db /\ home[x] = x
  BY DEF IInv, TypeOK, Homes
<1> QED
  BY <1>1 DEF IInv, TypeOK, Meant, Of

LEMMA GetMakes ==
    ASSUME IInv, NEW d \in Db, NEW o \in Opt, GetOptions(d, o)
    PROVE  Makes
<1>1. Of(d) = meant[d] /\ Of(d) \in Settings
  BY OfIsMeant DEF GetOptions
<1> QED
  BY <1>1, MakeMakes DEF GetOptions

LEMMA LoadMakes ==
    ASSUME IInv, NEW d \in Db, NEW o \in Opt,
           LoadRoot(d, o) \/ \E n \in Name \cup {NULL} : LoadEntry(d, n, o)
    PROVE  Makes
<1>1. /\ file[d] # NULL /\ file[d].main = meant[d] /\ file[d].family = family[d]
      /\ meant[d] \in Settings /\ family[d] \in [Name -> CfSettings \cup {NULL}]
  BY DEF LoadRoot, LoadEntry, IInv, Meant, TypeOK
<1>2. DefaultSettings \in Settings
  BY DEF DefaultSettings, Settings, Val
<1>3. \A S \in SUBSET Key, m \in Settings :
         Over(Restrict(m, S), DefaultSettings) \in Settings
  <2> SUFFICES ASSUME NEW S \in SUBSET Key, NEW m \in Settings
               PROVE  Over(Restrict(m, S), DefaultSettings) \in Settings
    OBVIOUS
  <2>1. DOMAIN Restrict(m, S) \subseteq Key
    BY DEF Restrict
  <2>2. \A k \in DOMAIN Restrict(m, S) : Restrict(m, S)[k] \in Val
    BY DEF Restrict, Settings
  <2> QED
    BY <1>2, <2>1, <2>2, OverSettings
<1>4. CASE LoadRoot(d, o)
  <2>1. {Create} \cup DbKey \in SUBSET Key
    BY DEF Key
  <2>2. Root(d) = Over(Restrict(meant[d], {Create} \cup DbKey), DefaultSettings)
    BY <1>1 DEF Root
  <2>3. Root(d) \in Settings
    BY <1>1, <1>3, <2>1, <2>2
  <2> QED
    BY <1>4, <2>2, <2>3, MakeMakes DEF LoadRoot
<1>5. ASSUME NEW n \in Name \cup {NULL}, LoadEntry(d, n, o)
      PROVE  Makes
  <2> DEFINE m == Over(Restrict(IF n \in Name THEN family[d][n] ELSE meant[d], CfKey),
                       DefaultSettings)
  <2>1. CfKey \in SUBSET Key
    BY DEF Key
  <2>2. CASE n \notin Name
    <3>1. Entry(d, n) = m
      BY <1>1, <2>2 DEF Entry
    <3>2. m \in Settings
      BY <1>1, <1>3, <2>1, <2>2
    <3> QED
      BY <1>5, <3>1, <3>2, MakeMakes DEF LoadEntry
  <2>3. CASE n \in Name
    <3>1. family[d][n] \in CfSettings
      BY <1>1, <1>5, <2>3 DEF LoadEntry
    <3>2. Restrict(family[d][n], CfKey) = family[d][n]
      BY <3>1 DEF Restrict, CfSettings
    <3>3. Entry(d, n) = m
      BY <1>1, <2>3, <3>2 DEF Entry
    <3>4. DOMAIN family[d][n] \subseteq Key /\ \A k \in DOMAIN family[d][n] : family[d][n][k] \in Val
      BY <2>1, <3>1 DEF CfSettings
    <3>5. m \in Settings
      BY <1>2, <2>3, <3>2, <3>4, OverSettings
    <3> QED
      BY <1>5, <3>3, <3>5, MakeMakes DEF LoadEntry
  <2> QED
    BY <2>2, <2>3
<1> QED
  BY <1>4, <1>5

LEMMA StringMakes ==
    ASSUME IInv, NEW o \in Opt, NEW base \in Opt \cup {NULL}, NEW from \in Opt \cup {NULL},
           NEW edit \in Edits, FromString(o, base, from, edit)
    PROVE  Makes \/ UNCHANGED vars
<1>1. /\ DefaultSettings \in Settings
      /\ DOMAIN edit \subseteq Key /\ \A k \in DOMAIN edit : edit[k] \in Val
  BY DEF DefaultSettings, Settings, Val, Edits
<1> DEFINE under == IF base = NULL THEN DefaultSettings ELSE Of(base)
           text  == IF from = NULL THEN edit ELSE Over(edit, Text(Of(from)))
<1>2. under \in Settings /\ under = IF base = NULL THEN DefaultSettings ELSE meant[base]
  BY <1>1, OfIsMeant DEF FromString, Usable
<1>3. /\ text = IF from = NULL THEN edit ELSE Over(edit, meant[from])
      /\ DOMAIN text \subseteq Key /\ \A k \in DOMAIN text : text[k] \in Val
  <2>1. CASE from = NULL
    BY <1>1, <2>1
  <2>2. CASE from # NULL
    <3>1. from \in named
      BY <2>2 DEF FromString, Usable
    <3>2. Of(from) = meant[from] /\ Text(Of(from)) = Of(from) /\ Of(from) \in Settings
      BY <3>1, OfIsMeant, TextIsAll
    <3>3. Over(edit, Of(from)) \in Settings
      BY <1>1, <3>2, OverSettings
    <3> QED
      BY <2>2, <3>2, <3>3 DEF Settings
  <2> QED
    BY <2>1, <2>2
<1>4. Over(text, under) \in Settings
  <2> HIDE DEF text, under
  <2> QED
    BY <1>2, <1>3, OverSettings
<1>5. \/ Make(o, o, Over(text, under), Over(text, under)) /\ UNCHANGED freed
      \/ freed' = freed \cup {home[b] : b \in {b \in Opt : b = base /\ GivesUp(b)}}
            /\ UNCHANGED <<value, home, named, meant>>
  BY <1>2, <1>3 DEF FromString
<1>6. UNCHANGED <<open, family, file, call>>
  BY DEF FromString
<1>7. {b \in Opt : b = base /\ GivesUp(b)} = {}
  BY HandleAssumption DEF GivesUp
<1> HIDE DEF text, under
<1> QED
  BY <1>4, <1>5, <1>6, <1>7, MakeMakes DEF vars, memory

-------------------------------------------------------------------------------
(* The steps *)

\* rocksdb-set-options gets through.
Applies(d, s) ==
    /\ call # NULL /\ call.db = d /\ call.done = Len(call.alist)
    /\ s = [k \in KeysOf(call.alist) |-> call.alist[PlaceOf(call.alist, k)][2]]
    /\ d \in open /\ DOMAIN s \subseteq Mutable
    /\ value' = [value EXCEPT ![home[d]] = Over(s, @)]
    /\ meant' = [meant EXCEPT ![d] = Over(s, @)]
    /\ call' = NULL
    /\ UNCHANGED <<freed, home, named, open, family>>
    /\ Written(d)

\* The steps of Next as the proofs below take them.
Step ==
    \/ UNCHANGED vars
    \/ Makes
    \/ \E o \in Opt, v \in Val : SetCreateIfMissing(o, v)
    \/ \E o \in Opt : Drop(o) \/ Finalize(o)
    \/ \E d \in Db, o \in Opt : Open(d, o) \/ \E n \in Name : CreateColumnFamily(d, o, n)
    \/ \E d \in Db : Close(d)
    \/ \E d \in Db, alist \in Alist : SetOptions(d, alist)
    \/ CopyPair
    \/ \E d \in Db : \E s : Applies(d, s)
    \/ call # NULL /\ call' = NULL /\ UNCHANGED <<memory, home, named, open, meant, family, file>>

LEMMA NextIsStep ==
    ASSUME IInv, [Next]_vars
    PROVE  Step
<1>1. CASE UNCHANGED vars
  BY <1>1 DEF Step
<1>2. ASSUME NEW o \in Opt, NEW s \in Settings, OptionsCreate(o, s)
      PROVE  Step
  BY <1>2, MakeMakes DEF OptionsCreate, Step
<1>3. ASSUME NEW o \in Opt, NEW base \in Opt \cup {NULL}, NEW from \in Opt \cup {NULL},
             NEW edit \in Edits, FromString(o, base, from, edit)
      PROVE  Step
  BY <1>3, StringMakes DEF Step
<1>4. ASSUME NEW d \in Db, NEW o \in Opt,
             GetOptions(d, o) \/ LoadRoot(d, o) \/ \E n \in Name \cup {NULL} : LoadEntry(d, n, o)
      PROVE  Step
  BY <1>4, GetMakes, LoadMakes DEF Step
<1>5. CASE ApplyOptions
  <2>1. call.db \in Db
    BY <1>5 DEF ApplyOptions, IInv, TypeOK, Call
  <2>2. ASSUME NEW d, d = call.db, NEW s,
               s = [k \in KeysOf(call.alist) |-> call.alist[PlaceOf(call.alist, k)][2]],
               d \in open, DOMAIN s \subseteq Mutable,
               value' = [value EXCEPT ![home[d]] = Over(s, @)],
               meant' = [meant EXCEPT ![d] = Over(s, @)],
               Written(d)
        PROVE  Step
    BY <1>5, <2>1, <2>2 DEF ApplyOptions, Applies, Step
  <2>3. CASE UNCHANGED <<value, meant, file>>
    BY <1>5, <2>3 DEF ApplyOptions, memory, Step
  <2> QED
    BY <1>5, <2>2, <2>3 DEF ApplyOptions, RefFound
<1> QED
  BY <1>1, <1>2, <1>3, <1>4, <1>5 DEF Next, Step

-------------------------------------------------------------------------------
(* Types *)

LEMMA InitIInv == Init => IInv
<1> SUFFICES ASSUME Init PROVE IInv
  OBVIOUS
<1>1. DefaultSettings \in Settings
  BY DEF DefaultSettings, Settings, Val
<1>2. TypeOK
  BY <1>1 DEF Init, TypeOK, Place
<1> QED
  BY <1>2 DEF Init, IInv, Homes, Kept, Meant, Copied

\* A file RocksDB writes of typed settings is typed.
LEMMA WrittenTyped ==
    ASSUME TypeOK, NEW d \in Db, Written(d), home'[d] \in Place,
           value' \in [Place -> Settings],
           family' \in [Db -> [Name -> CfSettings \cup {NULL}]]
    PROVE  file' \in [Db -> File \cup {NULL}]
BY DEF Written, TypeOK, File

\* The settings an open database has after rocksdb-set-options are settings.
LEMMA AppliedTyped ==
    ASSUME IInv, NEW d \in Db, NEW s, Applies(d, s)
    PROVE  /\ home[d] = d
           /\ value' = [value EXCEPT ![d] = Over(s, value[d])]
           /\ meant' = [meant EXCEPT ![d] = Over(s, meant[d])]
           /\ Over(s, value[d]) \in Settings /\ Over(s, meant[d]) \in Settings
           /\ \A k \in DOMAIN s : k \in KeysOf(call.alist)
           /\ \A i \in DOMAIN call.alist : call.alist[i] # NULL
<1>1. home[d] = d /\ value[d] \in Settings /\ meant[d] \in Settings
  BY DEF IInv, Homes, TypeOK, Applies, Place
<1>2. call.alist \in Alist /\ DOMAIN call.alist = 1 .. Len(call.alist)
  BY AlistIsSeq DEF IInv, TypeOK, Call, Applies
<1>3. \A i \in DOMAIN call.alist : call.alist[i] # NULL
  BY <1>2 DEF IInv, Copied, Applies
<1>4. DOMAIN s = KeysOf(call.alist) /\ \A k \in DOMAIN s : k \in Key /\ s[k] \in Val
  BY <1>2, <1>3, LastGiven DEF Applies
<1>5. Over(s, value[d]) \in Settings /\ Over(s, meant[d]) \in Settings
  BY <1>1, <1>4, OverSettings
<1> QED
  BY <1>1, <1>3, <1>4, <1>5 DEF Applies

LEMMA StepTyped ==
    ASSUME IInv, [Next]_vars
    PROVE  TypeOK'
<1>0. TypeOK /\ Homes
  BY DEF IInv
<1> USE <1>0
<1>1. CASE UNCHANGED vars
  BY <1>1 DEF vars, memory, TypeOK
<1>2. CASE Makes
  <2>1. PICK o \in Opt, s \in Settings :
           /\ home[o] = NULL
           /\ home' = [home EXCEPT ![o] = o]
           /\ value' = [value EXCEPT ![o] = s]
           /\ named' = named \cup {o}
           /\ meant' = [meant EXCEPT ![o] = s]
           /\ UNCHANGED <<freed, open, family, file, call>>
    BY <1>2 DEF Makes
  <2>2. /\ value' \in [Place -> Settings] /\ meant' \in [Opt \cup Db -> Settings]
        /\ home' \in [Opt \cup Db -> Place \cup {NULL}]
    BY <2>1 DEF TypeOK, Place
  <2>3. \A x \in Opt : home'[x] = IF x = o THEN o ELSE home[x]
    BY <2>1 DEF TypeOK
  <2>4. named' \subseteq {x \in Opt : home'[x] # NULL}
    BY <2>1, <2>3, HandleAssumption DEF TypeOK
  <2> QED
    BY <2>1, <2>2, <2>4 DEF TypeOK
<1>3. CASE \E o \in Opt, v \in Val : SetCreateIfMissing(o, v)
  <2>1. PICK o \in Opt, v \in Val : SetCreateIfMissing(o, v)
    BY <1>3
  <2>2. home[o] = o /\ Create \in Key
    BY <2>1 DEF SetCreateIfMissing, Usable, TypeOK, Homes, Key
  <2>3. value' = [value EXCEPT ![o] = [value[o] EXCEPT ![Create] = v]]
        /\ meant' = [meant EXCEPT ![o] = [meant[o] EXCEPT ![Create] = v]]
    BY <2>1, <2>2 DEF SetCreateIfMissing
  <2>4. \A f \in Settings : [f EXCEPT ![Create] = v] \in Settings
    BY <2>2 DEF Settings
  <2>5. value[o] \in Settings /\ meant[o] \in Settings
    BY DEF TypeOK, Place
  <2>6. value' \in [Place -> Settings] /\ meant' \in [Opt \cup Db -> Settings]
    BY <2>3, <2>4, <2>5 DEF TypeOK
  <2> QED
    BY <2>1, <2>6 DEF SetCreateIfMissing, TypeOK
<1>4. CASE \E o \in Opt : Drop(o) \/ Finalize(o)
  BY <1>4 DEF Drop, Finalize, memory, TypeOK
<1>5. ASSUME NEW d \in Db, NEW o \in Opt, Open(d, o)
      PROVE  TypeOK'
  <2>1. Of(o) \in Settings /\ d \in Place
    BY <1>5, OfIsMeant DEF Open, Usable, Place
  <2>2. /\ home' = [home EXCEPT ![d] = d] /\ value' = [value EXCEPT ![d] = Of(o)]
        /\ meant' = [meant EXCEPT ![d] = meant[o]]
        /\ freed' = freed \ {d} /\ open' = open \cup {d}
        /\ UNCHANGED <<named, family, call>> /\ Written(d)
    BY <1>5 DEF Open, Home
  <2>3. value' \in [Place -> Settings]
    BY <2>1, <2>2 DEF TypeOK
  <2>4. home'[d] = d
    BY <2>2 DEF TypeOK
  <2>5. file' \in [Db -> File \cup {NULL}]
    <3>1. family' \in [Db -> [Name -> CfSettings \cup {NULL}]]
      BY <2>2 DEF TypeOK
    <3> QED
      BY <2>1, <2>2, <2>3, <2>4, <3>1, WrittenTyped
  <2>6. /\ home' \in [Opt \cup Db -> Place \cup {NULL}]
        /\ \A x \in Opt : home'[x] = home[x] \/ home'[x] # NULL
        /\ meant' \in [Opt \cup Db -> Settings]
    BY <2>1, <2>2, HandleAssumption DEF TypeOK
  <2>7. named' \subseteq {x \in Opt : home'[x] # NULL}
    BY <2>2, <2>6 DEF TypeOK
  <2> QED
    BY <2>2, <2>3, <2>5, <2>6, <2>7 DEF TypeOK
<1>6. ASSUME NEW d \in Db, NEW o \in Opt, NEW n \in Name, CreateColumnFamily(d, o, n)
      PROVE  TypeOK'
  <2>1. home[d] = d /\ Of(o) \in Settings
    BY <1>6, OfIsMeant DEF CreateColumnFamily, Usable, Homes
  <2>2. Restrict(Of(o), CfKey) \in CfSettings
    BY <2>1 DEF Restrict, Settings, CfSettings, Key
  <2>3. family' \in [Db -> [Name -> CfSettings \cup {NULL}]]
    BY <1>6, <2>2 DEF CreateColumnFamily, TypeOK
  <2>4. file' \in [Db -> File \cup {NULL}]
    <3>1. Written(d) /\ home'[d] \in Place /\ value' \in [Place -> Settings]
      BY <1>6, <2>1 DEF CreateColumnFamily, memory, TypeOK, Place
    <3> QED
      BY <2>3, <3>1, WrittenTyped
  <2> QED
    BY <1>6, <2>3, <2>4 DEF CreateColumnFamily, memory, TypeOK
<1>7. CASE \E d \in Db : Close(d)
  BY <1>7 DEF Close, TypeOK, Place
<1>8. ASSUME NEW d \in Db, NEW alist \in Alist, SetOptions(d, alist)
      PROVE  TypeOK'
  <2>1. call' = [db |-> d, alist |-> alist, done |-> 0] 
    BY <1>8 DEF SetOptions
  <2>2. call' \in Call /\ call'.done <= Len(call'.alist)
    BY <2>1, AlistIsSeq, BoundAssumption DEF Call
  <2> QED
    BY <1>8, <2>2 DEF SetOptions, memory, TypeOK
<1>9. CASE CopyPair
  <2>1. /\ call \in Call /\ call.done < Len(call.alist)
        /\ Len(call.alist) \in Nat /\ Len(call.alist) <= MaxPairs
    BY <1>9, AlistIsSeq DEF CopyPair, TypeOK, Call
  <2>2. CASE call' = NULL
    BY <1>9, <2>2 DEF CopyPair, memory, TypeOK
  <2>3. CASE call' = [call EXCEPT !.done = @ + 1]
    <3>1. call' \in Call /\ call'.done <= Len(call'.alist)
      BY <2>1, <2>3, BoundAssumption DEF Call
    <3> QED
      BY <1>9, <3>1 DEF CopyPair, memory, TypeOK
  <2> QED
    BY <1>9, <2>2, <2>3 DEF CopyPair
<1>10. ASSUME NEW d \in Db, NEW s, Applies(d, s)
       PROVE  TypeOK'
  <2>1. /\ value' = [value EXCEPT ![d] = Over(s, value[d])]
        /\ meant' = [meant EXCEPT ![d] = Over(s, meant[d])]
        /\ Over(s, value[d]) \in Settings /\ Over(s, meant[d]) \in Settings
        /\ home[d] = d
    BY <1>10, AppliedTyped
  <2>2. value' \in [Place -> Settings] /\ meant' \in [Opt \cup Db -> Settings]
    BY <2>1 DEF TypeOK
  <2>3. file' \in [Db -> File \cup {NULL}]
    <3>1. Written(d) /\ home'[d] \in Place /\ family' \in [Db -> [Name -> CfSettings \cup {NULL}]]
      BY <1>10, <2>1 DEF Applies, TypeOK, Place
    <3> QED
      BY <2>2, <3>1, WrittenTyped
  <2> QED
    BY <1>10, <2>2, <2>3 DEF Applies, TypeOK
<1>11. CASE call # NULL /\ call' = NULL /\ UNCHANGED <<memory, home, named, open, meant, family, file>>
  BY <1>11 DEF memory, TypeOK
<1> QED
  BY <1>1, <1>2, <1>3, <1>4, <1>5, <1>6, <1>7, <1>8, <1>9, <1>10, <1>11, NextIsStep DEF Step

-------------------------------------------------------------------------------
(* Homes, destroyed places, pairs *)

LEMMA StepHomes ==
    ASSUME IInv, [Next]_vars
    PROVE  Homes'
<1>0. TypeOK /\ Homes
  BY DEF IInv
<1> USE <1>0
<1>1. CASE UNCHANGED <<home, open>>
  BY <1>1 DEF Homes
<1>2. CASE Makes
  <2>1. PICK o \in Opt : home[o] = NULL /\ home' = [home EXCEPT ![o] = o] /\ open' = open
    BY <1>2 DEF Makes
  <2>2. \A x \in Opt \cup Db : home'[x] = IF x = o THEN o ELSE home[x]
    BY <2>1 DEF TypeOK
  <2> QED
    BY <2>1, <2>2, HandleAssumption DEF Homes, TypeOK
<1>3. ASSUME NEW d \in Db, NEW o \in Opt, Open(d, o)
      PROVE  Homes'
  <2>1. home' = [home EXCEPT ![d] = d] /\ open' = open \cup {d}
    BY <1>3 DEF Open, Home
  <2>2. \A x \in Opt \cup Db : home'[x] = IF x = d THEN d ELSE home[x]
    BY <2>1 DEF TypeOK
  <2> QED
    BY <2>1, <2>2 DEF Homes, TypeOK
<1>4. CASE \E d \in Db : Close(d)
  BY <1>4 DEF Close, Homes
<1> QED
  BY <1>1, <1>2, <1>3, <1>4, NextIsStep
  DEF Step, vars, SetCreateIfMissing, Drop, Finalize, CreateColumnFamily, SetOptions,
      CopyPair, Applies

LEMMA StepKept ==
    ASSUME IInv, [Next]_vars
    PROVE  Kept'
<1>0. TypeOK /\ Homes /\ Kept
  BY DEF IInv
<1> USE <1>0
<1>1. CASE UNCHANGED <<freed, home, named, open>>
  BY <1>1 DEF Kept
<1>2. CASE Makes
  <2>1. PICK o \in Opt : /\ home[o] = NULL /\ home' = [home EXCEPT ![o] = o]
                         /\ named' = named \cup {o} /\ UNCHANGED <<freed, open>>
    BY <1>2 DEF Makes
  <2>2. \A x \in Opt : home'[x] = IF x = o THEN o ELSE home[x]
    BY <2>1 DEF TypeOK
  <2> QED
    BY <2>1, <2>2, HandleAssumption DEF Kept
<1>3. CASE \E o \in Opt : Drop(o)
  BY <1>3 DEF Drop, memory, Kept
<1>4. ASSUME NEW o \in Opt, Finalize(o)
      PROVE  Kept'
  <2>1. home[o] = o
    BY <1>4 DEF Finalize, Homes
  <2> QED
    BY <1>4, <2>1, HandleAssumption DEF Finalize, Kept, TypeOK
<1>5. ASSUME NEW d \in Db, NEW o \in Opt, Open(d, o)
      PROVE  Kept'
  <2>1. /\ home' = [home EXCEPT ![d] = d] /\ freed' = freed \ {d}
        /\ open' = open \cup {d} /\ named' = named
    BY <1>5 DEF Open, Home
  <2>2. \A x \in Opt : home'[x] = home[x]
    BY <2>1, HandleAssumption DEF TypeOK
  <2> QED
    BY <2>1, <2>2 DEF Kept
<1>6. ASSUME NEW d \in Db, Close(d)
      PROVE  Kept'
  <2>1. d \notin named /\ d \notin Opt
    BY HandleAssumption DEF TypeOK
  <2> QED
    BY <1>6, <2>1 DEF Close, Kept
<1> QED
  BY <1>1, <1>2, <1>3, <1>4, <1>5, <1>6, NextIsStep
  DEF Step, vars, memory, SetCreateIfMissing, CreateColumnFamily, SetOptions, CopyPair, Applies

LEMMA StepCopied ==
    ASSUME IInv, [Next]_vars
    PROVE  Copied'
<1>0. TypeOK /\ Copied
  BY DEF IInv
<1> USE <1>0
<1>1. CASE UNCHANGED call
  BY <1>1 DEF Copied
<1>2. CASE \E d \in Db, alist \in Alist : SetOptions(d, alist)
  <2>1. call'.done = 0
    BY <1>2 DEF SetOptions
  <2> QED
    BY <2>1 DEF Copied
<1>3. CASE CopyPair
  <2>1. call \in Call /\ call # NULL /\ call.done \in Nat
    BY <1>3, BoundAssumption DEF CopyPair, TypeOK, Call
  <2>2. CASE call' = NULL
    BY <2>2 DEF Copied
  <2>3. CASE call.alist[call.done + 1] # NULL /\ call' = [call EXCEPT !.done = @ + 1]
    <3>1. call'.alist = call.alist /\ call'.done = call.done + 1
      BY <2>1, <2>3 DEF Call
    <3> QED
      BY <2>1, <2>3, <3>1 DEF Copied
  <2> QED
    BY <1>3, <2>2, <2>3 DEF CopyPair
<1>4. CASE call' = NULL
  BY <1>4 DEF Copied
<1> QED
  BY <1>1, <1>2, <1>3, <1>4, NextIsStep
  DEF Step, vars, Makes, SetCreateIfMissing, Drop, Finalize, Open, Close, CreateColumnFamily, Applies

-------------------------------------------------------------------------------
(* Settings *)

LEMMA StepMeant ==
    ASSUME IInv, [Next]_vars
    PROVE  Meant'
<1>0. TypeOK /\ Homes /\ Meant
  BY DEF IInv
<1> USE <1>0
<1>1. CASE UNCHANGED <<value, named, open, meant, family, file>>
  BY <1>1 DEF Meant
<1>2. CASE Makes
  <2>1. PICK o \in Opt, s \in Settings :
           /\ value' = [value EXCEPT ![o] = s]
           /\ named' = named \cup {o}
           /\ meant' = [meant EXCEPT ![o] = s]
           /\ UNCHANGED <<open, family, file>>
    BY <1>2 DEF Makes
  <2>2. \A x \in Opt \cup Db : /\ value'[x] = IF x = o THEN s ELSE value[x]
                               /\ meant'[x] = IF x = o THEN s ELSE meant[x]
    BY <2>1 DEF TypeOK, Place
  <2>3. \A x \in named' \cup open' : value'[x] = meant'[x]
    BY <2>1, <2>2 DEF Meant, TypeOK
  <2>4. \A d \in Db : meant'[d] = meant[d]
    BY <2>1, <2>2, HandleAssumption
  <2> QED
    BY <2>1, <2>3, <2>4 DEF Meant
<1>3. ASSUME NEW o \in Opt, NEW v \in Val, SetCreateIfMissing(o, v)
      PROVE  Meant'
  <2>1. o \in named /\ home[o] = o /\ value[o] = meant[o]
    BY <1>3 DEF SetCreateIfMissing, Usable, Homes, TypeOK, Meant
  <2>2. /\ value' = [value EXCEPT ![o] = [value[o] EXCEPT ![Create] = v]]
        /\ meant' = [meant EXCEPT ![o] = [meant[o] EXCEPT ![Create] = v]]
        /\ UNCHANGED <<named, open, family, file>>
    BY <1>3, <2>1 DEF SetCreateIfMissing
  <2>3. \A x \in Opt \cup Db :
           /\ value'[x] = IF x = o THEN [value[o] EXCEPT ![Create] = v] ELSE value[x]
           /\ meant'[x] = IF x = o THEN [meant[o] EXCEPT ![Create] = v] ELSE meant[x]
    BY <2>2 DEF TypeOK, Place
  <2>4. \A x \in named' \cup open' : value'[x] = meant'[x]
    BY <2>1, <2>2, <2>3 DEF Meant, TypeOK
  <2>5. \A d \in Db : meant'[d] = meant[d]
    BY <2>3, HandleAssumption
  <2> QED
    BY <2>2, <2>4, <2>5 DEF Meant
<1>4. CASE \E o \in Opt : Drop(o) \/ Finalize(o)
  BY <1>4 DEF Drop, Finalize, memory, Meant
<1>5. ASSUME NEW d \in Db, NEW o \in Opt, Open(d, o)
      PROVE  Meant'
  <2>1. Of(o) = meant[o]
    BY <1>5, OfIsMeant DEF Open, Usable
  <2>2. /\ home' = [home EXCEPT ![d] = d] /\ value' = [value EXCEPT ![d] = Of(o)]
        /\ meant' = [meant EXCEPT ![d] = meant[o]]
        /\ open' = open \cup {d} /\ UNCHANGED <<named, family>>
        /\ file' = [file EXCEPT ![d] = [main |-> value'[home'[d]], family |-> family'[d]]]
    BY <1>5 DEF Open, Home, Written
  <2>3. /\ home'[d] = d
        /\ \A x \in Opt \cup Db : /\ value'[x] = IF x = d THEN Of(o) ELSE value[x]
                                  /\ meant'[x] = IF x = d THEN meant[o] ELSE meant[x]
    BY <2>2 DEF TypeOK, Place
  <2>4. \A x \in named' \cup open' : value'[x] = meant'[x]
    BY <2>1, <2>2, <2>3 DEF Meant, TypeOK
  <2>5. \A e \in Db : IF e = d THEN /\ file'[e].main = meant'[d]
                                    /\ file'[e].family = family'[d]
                      ELSE file'[e] = file[e] /\ meant'[e] = meant[e]
    BY <2>1, <2>2, <2>3 DEF TypeOK
  <2> QED
    BY <2>2, <2>4, <2>5 DEF Meant
<1>6. ASSUME NEW d \in Db, NEW o \in Opt, NEW n \in Name, CreateColumnFamily(d, o, n)
      PROVE  Meant'
  <2>1. home[d] = d /\ value[d] = meant[d]
    BY <1>6 DEF CreateColumnFamily, Homes, Meant
  <2>2. /\ UNCHANGED <<home, value, meant, open, named>>
        /\ \A e \in Db : e # d => family'[e] = family[e]
        /\ file' = [file EXCEPT ![d] = [main |-> value'[home'[d]], family |-> family'[d]]]
    BY <1>6 DEF CreateColumnFamily, memory, Written, TypeOK
  <2>3. \A e \in Db : IF e = d THEN /\ file'[e].main = meant'[d]
                                    /\ file'[e].family = family'[d]
                      ELSE file'[e] = file[e]
    BY <2>1, <2>2 DEF TypeOK
  <2> QED
    BY <2>2, <2>3 DEF Meant
<1>7. CASE \E d \in Db : Close(d)
  BY <1>7 DEF Close, Meant
<1>8. ASSUME NEW d \in Db, NEW s, Applies(d, s)
      PROVE  Meant'
  <2>1. /\ home[d] = d /\ value[d] = meant[d]
        /\ value' = [value EXCEPT ![d] = Over(s, value[d])]
        /\ meant' = [meant EXCEPT ![d] = Over(s, meant[d])]
    BY <1>8, AppliedTyped DEF Applies, Meant
  <2>2. /\ UNCHANGED <<home, named, open, family>>
        /\ file' = [file EXCEPT ![d] = [main |-> value'[home'[d]], family |-> family'[d]]]
    BY <1>8 DEF Applies, Written
  <2>3. \A x \in Opt \cup Db : /\ value'[x] = IF x = d THEN Over(s, value[d]) ELSE value[x]
                               /\ meant'[x] = IF x = d THEN Over(s, value[d]) ELSE meant[x]
    BY <2>1 DEF TypeOK, Place
  <2>4. \A x \in named' \cup open' : value'[x] = meant'[x]
    BY <2>2, <2>3 DEF Meant, TypeOK
  <2>5. \A e \in Db : IF e = d THEN /\ file'[e].main = meant'[d]
                                    /\ file'[e].family = family'[d]
                      ELSE file'[e] = file[e] /\ meant'[e] = meant[e]
    BY <2>1, <2>2, <2>3 DEF TypeOK
  <2> QED
    BY <2>2, <2>4, <2>5 DEF Meant
<1> QED
  BY <1>1, <1>2, <1>3, <1>4, <1>5, <1>6, <1>7, <1>8, NextIsStep
  DEF Step, vars, memory, SetOptions, CopyPair

-------------------------------------------------------------------------------
(* The theorems *)

LEMMA Invariance == Spec => []IInv
<1>1. IInv /\ [Next]_vars => IInv'
  BY StepTyped, StepHomes, StepKept, StepMeant, StepCopied DEF IInv
<1> QED
  BY <1>1, InitIInv, PTL DEF Spec

\* The variables keep their types.
THEOREM TypesHold == Spec => []TypeOK
<1>1. IInv => TypeOK
  BY DEF IInv
<1> QED
  BY <1>1, Invariance, PTL

\* The copies that rocksdb-open and the constructors of options objects make
\* keep everything apart: no object, string, file or database made from another
\* changes it, and what passes through a string or the OPTIONS file is kept.
THEOREM SettingsStay == Spec => []SettingsAreTheirOwn
<1>1. IInv => SettingsAreTheirOwn
  BY OfIsMeant DEF SettingsAreTheirOwn
<1> QED
  BY <1>1, Invariance, PTL

\* Neither a finalizer nor a failed string->rocksdb-options destroys the
\* settings of anything the program can still use.
THEOREM NothingFreed == Spec => []NothingFreedIsUsed
<1>1. IInv => NothingFreedIsUsed
  BY OfIsMeant DEF IInv, Kept, NothingFreedIsUsed
<1> QED
  BY <1>1, Invariance, PTL

\* rocksdb-set-options does all it was asked or nothing, whatever a pair of its
\* alist raises and whoever closes the database while it walks.
THEOREM SetOptionsWhole == Spec => SetOptionsIsWhole
<1> DEFINE Whole ==
       \A d \in Db : (d \in open) = (d \in open)' /\ file[d] # file'[d]
                        /\ family[d] = family'[d] =>
        /\ d \in open /\ call # NULL /\ call' = NULL
        /\ \A k \in Key :
             IF k \notin KeysOf(call.alist) THEN value'[d][k] = value[d][k]
             ELSE \E i \in DOMAIN call.alist :
                    /\ call.alist[i] = <<k, value'[d][k]>>
                    /\ \A j \in DOMAIN call.alist : call.alist[j][1] = k => j <= i
<1>1. ASSUME IInv, [Next]_vars
      PROVE  Whole
  <2> SUFFICES ASSUME NEW d \in Db, (d \in open) = (d \in open)', file[d] # file'[d],
                      family[d] = family'[d]
               PROVE  /\ d \in open /\ call # NULL /\ call' = NULL
                      /\ \A k \in Key :
                           IF k \notin KeysOf(call.alist) THEN value'[d][k] = value[d][k]
                           ELSE \E i \in DOMAIN call.alist :
                                  /\ call.alist[i] = <<k, value'[d][k]>>
                                  /\ \A j \in DOMAIN call.alist : call.alist[j][1] = k => j <= i
    OBVIOUS
  <2>1. TypeOK
    BY <1>1 DEF IInv
  <2>2. ASSUME NEW e \in Db, Written(e), e # d PROVE FALSE
    BY <2>1, <2>2 DEF Written, TypeOK
  <2>3. ASSUME NEW e \in Db, NEW o \in Opt, Open(e, o) PROVE FALSE
    BY <2>2, <2>3 DEF Open
  <2>4. ASSUME NEW e \in Db, NEW o \in Opt, NEW n \in Name, CreateColumnFamily(e, o, n)
        PROVE  FALSE
    <3>1. e = d
      BY <2>2, <2>4 DEF CreateColumnFamily
    <3>2. family'[d][n] = Restrict(Of(o), CfKey) /\ family[d][n] = NULL
      BY <2>1, <2>4, <3>1 DEF CreateColumnFamily, TypeOK
    <3>3. Restrict(Of(o), CfKey) \in CfSettings
      BY <1>1, <2>4, OfIsMeant DEF CreateColumnFamily, Usable, Restrict, Settings, CfSettings, Key
    <3> QED
      BY <3>2, <3>3, NullAssumption
  <2>5. PICK s : Applies(d, s)
    BY <1>1, <2>2, <2>3, <2>4, NextIsStep
    DEF Step, vars, memory, Makes, SetCreateIfMissing, Drop, Finalize, Close, SetOptions,
        CopyPair, Applies
  <2>6. /\ value' = [value EXCEPT ![d] = Over(s, value[d])] /\ value[d] \in Settings
        /\ Over(s, value[d]) \in Settings
        /\ DOMAIN s = KeysOf(call.alist) /\ call.alist \in Alist
        /\ \A i \in DOMAIN call.alist : call.alist[i] # NULL
        /\ \A k \in DOMAIN s : s[k] = call.alist[PlaceOf(call.alist, k)][2]
    BY <1>1, <2>1, <2>5, AppliedTyped DEF Applies, TypeOK, Call, Place
  <2>7. \A k \in Key : value'[d][k] = IF k \in KeysOf(call.alist)
                                        THEN call.alist[PlaceOf(call.alist, k)][2]
                                        ELSE value[d][k]
    BY <2>1, <2>6 DEF Over, TypeOK, Place, Settings
  <2>8. ASSUME NEW k \in KeysOf(call.alist)
        PROVE  /\ PlaceOf(call.alist, k) \in DOMAIN call.alist
               /\ call.alist[PlaceOf(call.alist, k)] = <<k, value'[d][k]>>
               /\ \A j \in DOMAIN call.alist :
                     call.alist[j][1] = k => j <= PlaceOf(call.alist, k)
    BY <2>6, <2>7, <2>8, LastGiven
  <2> QED
    BY <2>5, <2>7, <2>8 DEF Applies
<1>2. IInv /\ [Next]_vars => [Whole]_vars
  BY <1>1
<1> QED
  BY <1>2, Invariance, PTL DEF Spec, SetOptionsIsWhole
===============================================================================

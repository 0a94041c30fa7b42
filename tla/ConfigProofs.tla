---------------------------- MODULE ConfigProofs ----------------------------
(***************************************************************************)
(* The two modules that a configuration goes through before reconcile()    *)
(* acts on it, whose names are chosen apart.                               *)
(*                                                                         *)
(* ConfigLoader, for every directory tree: the walk finds every outermost  *)
(* enclave once, and nothing that a file of the tree names is torn down.   *)
(*                                                                         *)
(* EnclaveGraph, for every set of configurations: what is accepted is      *)
(* sound, what is refused is refused for cause, and reconcile() meets      *)
(* exporters before importers.                                             *)
(***************************************************************************)
EXTENDS ConfigLoader, EnclaveGraph,
        WellFoundedInduction, FiniteSetTheorems, FunctionTheorems, TLAPS

-----------------------------------------------------------------------------
(* The directory tree. *)

\* The directories above d, d's parent among them, with their parents.
LEMMA AncestorsClosed ==
  ASSUME NEW d \in Dir
  PROVE  /\ Ancestors[d] \subseteq Dir
         /\ \A x \in Ancestors[d] \cup {d} : Parent[x] \in Ancestors[d] \cup {Root}
<1>1. Ancestors[d] = {a \in Dir : \A S \in SUBSET Dir :
                        (\A x \in S \cup {d} : Parent[x] \in S \cup {Root}) => a \in S}
  BY DEF Ancestors
<1>2. ASSUME NEW x \in Ancestors[d] \cup {d}, Parent[x] # Root PROVE Parent[x] \in Ancestors[d]
  <2>1. Parent[x] \in Dir
    BY <1>1, <1>2, LoaderAssumption
  <2>2. ASSUME NEW S \in SUBSET Dir, \A y \in S \cup {d} : Parent[y] \in S \cup {Root}
        PROVE  Parent[x] \in S
    <3>1. x \in S \cup {d}
      BY <1>1, <2>2
    <3> QED
      BY <1>2, <2>2, <3>1
  <2> QED
    BY <1>1, <2>1, <2>2
<1> QED
  BY <1>1, <1>2

\* They are no more than that.
LEMMA AncestorsLeast ==
  ASSUME NEW d \in Dir, NEW S \in SUBSET Dir,
         \A x \in S \cup {d} : Parent[x] \in S \cup {Root}
  PROVE  Ancestors[d] \subseteq S
BY DEF Ancestors

LEMMA AncestorsStep ==
  ASSUME NEW d \in Dir
  PROVE  /\ Parent[d] = Root => Ancestors[d] = {}
         /\ Parent[d] # Root => Ancestors[d] = {Parent[d]} \cup Ancestors[Parent[d]]
<1>1. ASSUME Parent[d] = Root PROVE Ancestors[d] = {}
  <2>1. {} \in SUBSET Dir /\ \A x \in {} \cup {d} : Parent[x] \in {} \cup {Root}
    BY <1>1
  <2>2. Ancestors[d] \subseteq {}
    BY <2>1, AncestorsLeast
  <2> QED
    BY <2>2
<1>2. ASSUME Parent[d] # Root PROVE Ancestors[d] = {Parent[d]} \cup Ancestors[Parent[d]]
  <2> DEFINE p == Parent[d]
  <2>1. p \in Dir
    BY <1>2, LoaderAssumption
  <2>2. p \in Ancestors[d]
    BY <1>2, AncestorsClosed
  <2>3. Ancestors[p] \subseteq Ancestors[d]
    BY <2>1, <2>2, AncestorsClosed, AncestorsLeast
  <2>4. Ancestors[d] \subseteq {p} \cup Ancestors[p]
    <3> DEFINE S == {p} \cup Ancestors[p]
    <3>1. S \in SUBSET Dir
      BY <2>1, AncestorsClosed
    <3>2. \A x \in S \cup {d} : Parent[x] \in S \cup {Root}
      BY <2>1, AncestorsClosed
    <3> HIDE DEF S
    <3>3. Ancestors[d] \subseteq S
      BY <3>1, <3>2, AncestorsLeast
    <3> QED
      BY <3>3 DEF S
  <2> QED
    BY <2>2, <2>3, <2>4
<1> QED
  BY <1>1, <1>2

LEMMA NoCircle ==
  ASSUME NEW d \in Dir
  PROVE  d \notin Ancestors[d]
<1> SUFFICES ASSUME d \in Ancestors[d] PROVE FALSE
  OBVIOUS
<1> DEFINE S == {x \in Dir : d \in Ancestors[x]}
<1>1. PICK e \in S : Parent[e] \notin S
  BY LoaderAssumption
<1>2. Parent[e] # Root /\ Parent[e] \in Dir
  BY <1>1, AncestorsStep, LoaderAssumption
<1>3. d = Parent[e] \/ d \in Ancestors[Parent[e]]
  BY <1>1, <1>2, AncestorsStep
<1> QED
  BY <1>1, <1>2, <1>3

\* The way from o up to a directory above it goes through one of its children, and
\* the way up to Root through one of Root's.
LEMMA ChildBetween ==
  ASSUME NEW o \in Dir, NEW d \in Ancestors[o]
  PROVE  \E c \in Sub(d) : c \in Ancestors[o] \cup {o}
<1> SUFFICES ASSUME \A c \in Sub(d) : c \notin Ancestors[o] \cup {o} PROVE FALSE
  OBVIOUS
<1>1. \A x \in (Ancestors[o] \ {d}) \cup {o} : Parent[x] \in (Ancestors[o] \ {d}) \cup {Root}
  BY AncestorsClosed DEF Sub
<1> DEFINE S == Ancestors[o] \ {d}
<1>2. S \in SUBSET Dir
  BY AncestorsClosed
<1>3. \A x \in S \cup {o} : Parent[x] \in S \cup {Root}
  BY <1>1
<1> HIDE DEF S
<1>4. Ancestors[o] \subseteq S
  BY <1>2, <1>3, AncestorsLeast
<1> QED
  BY <1>4 DEF S

LEMMA TopAbove ==
  ASSUME NEW o \in Dir
  PROVE  \E c \in Sub(Root) : c \in Ancestors[o] \cup {o}
<1> DEFINE S == Ancestors[o] \cup {o}
<1>1. S \in SUBSET Dir /\ S # {}
  BY AncestorsClosed
<1>2. PICK c \in Ancestors[o] \cup {o} : Parent[c] \notin Ancestors[o] \cup {o}
  BY <1>1, LoaderAssumption
<1>3. Parent[c] = Root /\ c \in Dir
  BY <1>2, AncestorsClosed
<1> QED
  BY <1>3 DEF Sub

-----------------------------------------------------------------------------
(* The stack of the walk. *)

LEMMA PushIs ==
  ASSUME NEW s \in Seq(SUBSET Dir), Disjoint(s),
         NEW ds \in SUBSET Dir, ds \cap Joined(s) = {}
  PROVE  /\ Push(ds, s) \in Seq(SUBSET Dir) /\ Disjoint(Push(ds, s))
         /\ Joined(Push(ds, s)) = ds \cup Joined(s)
<1>1. CASE ds = {}
  BY <1>1 DEF Push
<1>2. CASE ds # {}
  <2> DEFINE t == <<ds>> \o s
  <2>1. Push(ds, s) = t
    BY <1>2 DEF Push
  <2>2. /\ t \in Seq(SUBSET Dir) /\ Len(s) \in Nat /\ DOMAIN s = 1 .. Len(s)
        /\ DOMAIN t = 1 .. Len(s) + 1 /\ t[1] = ds
        /\ \A i \in DOMAIN s : i + 1 \in DOMAIN t /\ t[i + 1] = s[i]
    OBVIOUS
  <2>3. \A i \in DOMAIN t : i = 1 \/ (i - 1 \in DOMAIN s /\ t[i] = s[i - 1])
    BY <2>2
  <2>4. \A i \in DOMAIN s : s[i] \cap ds = {}
    BY DEF Joined
  <2> HIDE DEF t
  <2>5. Joined(t) = ds \cup Joined(s)
    <3>1. Joined(t) \subseteq ds \cup Joined(s)
      BY <2>2, <2>3 DEF Joined
    <3>2. ds \cup Joined(s) \subseteq Joined(t)
      <4>1. 1 \in DOMAIN t
        BY <2>2
      <4> QED
        BY <2>2, <4>1 DEF Joined
    <3> QED
      BY <3>1, <3>2
  <2>6. ASSUME NEW i \in DOMAIN t, NEW j \in DOMAIN t, i # j PROVE t[i] \cap t[j] = {}
    <3>1. CASE i = 1
      BY <2>2, <2>3, <2>4, <2>6, <3>1
    <3>2. CASE j = 1
      BY <2>2, <2>3, <2>4, <2>6, <3>2
    <3>3. CASE i # 1 /\ j # 1
      <4>1. /\ i - 1 \in DOMAIN s /\ t[i] = s[i - 1]
            /\ j - 1 \in DOMAIN s /\ t[j] = s[j - 1]
        BY <2>3, <3>3
      <4>2. i - 1 # j - 1
        BY <2>2, <2>6
      <4> QED
        BY <4>1, <4>2 DEF Disjoint
    <3> QED
      BY <3>1, <3>2, <3>3
  <2> QED
    BY <2>1, <2>2, <2>5, <2>6 DEF Disjoint
<1> QED
  BY <1>1, <1>2

LEMMA PopIs ==
  ASSUME NEW s \in Seq(SUBSET Dir), s # <<>>, Disjoint(s), NEW d \in Head(s)
  PROVE  /\ Pop(d, s) \in Seq(SUBSET Dir) /\ Disjoint(Pop(d, s))
         /\ Joined(Pop(d, s)) = Joined(s) \ {d} /\ d \in Joined(s)
<1> DEFINE h == Head(s)
           t == Tail(s)
<1>1. /\ t \in Seq(SUBSET Dir) /\ h \in SUBSET Dir /\ Len(s) \in Nat
      /\ DOMAIN s = 1 .. Len(s) /\ 1 \in DOMAIN s /\ s[1] = h
      /\ DOMAIN t = 1 .. Len(s) - 1
      /\ \A i \in DOMAIN t : i + 1 \in DOMAIN s /\ t[i] = s[i + 1]
  OBVIOUS
<1>2. \A i \in DOMAIN s : i = 1 \/ (i - 1 \in DOMAIN t /\ t[i - 1] = s[i])
  BY <1>1
<1> HIDE DEF h, t
<1>3. Disjoint(t)
  <2> SUFFICES ASSUME NEW i \in DOMAIN t, NEW j \in DOMAIN t, i # j PROVE t[i] \cap t[j] = {}
    BY DEF Disjoint
  <2>1. i + 1 # j + 1
    BY <1>1
  <2> QED
    BY <1>1, <2>1 DEF Disjoint
<1>4. h \cap Joined(t) = {}
  <2> SUFFICES ASSUME NEW i \in DOMAIN t PROVE h \cap t[i] = {}
    BY DEF Joined
  <2>1. i + 1 # 1
    BY <1>1
  <2> QED
    BY <1>1, <2>1 DEF Disjoint
<1>5. Joined(s) = h \cup Joined(t)
  <2>1. Joined(s) \subseteq h \cup Joined(t)
    BY <1>1, <1>2 DEF Joined
  <2>2. h \cup Joined(t) \subseteq Joined(s)
    BY <1>1 DEF Joined
  <2> QED
    BY <2>1, <2>2
<1>6. Pop(d, s) = Push(h \ {d}, t)
  BY DEF Pop, h, t
<1>7. /\ Push(h \ {d}, t) \in Seq(SUBSET Dir) /\ Disjoint(Push(h \ {d}, t))
      /\ Joined(Push(h \ {d}, t)) = (h \ {d}) \cup Joined(t)
  <2>1. h \ {d} \in SUBSET Dir /\ (h \ {d}) \cap Joined(t) = {}
    BY <1>1, <1>4
  <2> QED
    BY <1>1, <1>3, <2>1, PushIs
<1>8. d \in h /\ d \notin Joined(t)
  BY <1>4 DEF h
<1> QED
  BY <1>5, <1>6, <1>7, <1>8

-----------------------------------------------------------------------------
(* The walk. *)

LoaderInv == LoaderTypeOK /\ WalkInv

\* The files do not change, and so neither does what they are good for.
LEMMA FilesStay ==
  ASSUME UNCHANGED file
  PROVE  /\ Outermost' = Outermost
         /\ \A d : ParsesAsEnclave(d)' = ParsesAsEnclave(d) /\ ConvertsAll(d)' = ConvertsAll(d)
<1>1. \A d : ParsesAsEnclave(d)' = ParsesAsEnclave(d)
  BY DEF ParsesAsEnclave
<1>2. \A d : Wanted(d)' = Wanted(d)
  BY DEF Wanted, Listed, ParsesAsPartition, Declares
<1>3. \A d : ConvertsAll(d)' = ConvertsAll(d)
  BY <1>2 DEF ConvertsAll, Converts, ParsesAsPartition
<1> QED
  BY <1>1, <1>3 DEF Outermost

\* What has been found is in the tree.
LEMMA FoundInTree ==
  ASSUME LoaderTypeOK
  PROVE  FoundDirs \subseteq Dir /\ DOMAIN found = 1 .. Len(found) /\ Len(found) \in Nat
<1>1. found \in Seq(Loaded)
  BY DEF LoaderTypeOK
<1>2. \A i \in DOMAIN found : found[i] \in Loaded
  BY <1>1
<1>3. \A x \in Loaded : x.dir \in Dir
  BY DEF Loaded
<1> QED
  BY <1>1, <1>2, <1>3 DEF FoundDirs

\* A directory that is visited leaves the stack; it is related to nothing in it, or
\* found.
LEMMA VisitedApart ==
  ASSUME LoaderTypeOK, WalkApart, NEW d \in Dir, Visiting(d)
  PROVE  /\ Pop(d, open) \in Seq(SUBSET Dir) /\ Disjoint(Pop(d, open))
         /\ Joined(Pop(d, open)) = Joined(open) \ {d}
         /\ Joined(open) \subseteq Dir /\ d \in Joined(open)
         /\ d \notin FoundDirs /\ d \notin Ancestors[d]
         /\ \A a \in Ancestors[d] : a \notin Joined(open) /\ ~ ParsesAsEnclave(a)
<1>1. open \in Seq(SUBSET Dir) /\ open # <<>> /\ d \in Head(open) /\ Disjoint(open)
  BY DEF LoaderTypeOK, Visiting, WalkApart
<1>2. Joined(open) \subseteq Dir
  BY <1>1 DEF Joined
<1>3. /\ Pop(d, open) \in Seq(SUBSET Dir) /\ Disjoint(Pop(d, open))
      /\ Joined(Pop(d, open)) = Joined(open) \ {d} /\ d \in Joined(open)
  BY <1>1, PopIs
<1> QED
  BY <1>2, <1>3, NoCircle DEF WalkApart

\* One more enclave at the end of those found.
LEMMA OneMore ==
  ASSUME LoaderTypeOK, NEW x \in Loaded, found' = Append(found, x)
  PROVE  /\ found' \in Seq(Loaded) /\ FoundDirs' = FoundDirs \cup {x.dir}
         /\ LoadedIds' = LoadedIds \cup {IdOf[x.dir]}
         /\ FoundGood /\ x.dir \notin FoundDirs =>
              \A i, j \in DOMAIN found' : found'[i].dir = found'[j].dir => i = j
<1>1. found \in Seq(Loaded)
  BY DEF LoaderTypeOK
<1>2. /\ found' \in Seq(Loaded) /\ Len(found) \in Nat /\ DOMAIN found = 1 .. Len(found)
      /\ DOMAIN found' = 1 .. Len(found) + 1 /\ found'[Len(found) + 1] = x
      /\ \A i \in DOMAIN found : i \in DOMAIN found' /\ found'[i] = found[i]
  BY <1>1
<1>3. /\ Len(found) + 1 \in DOMAIN found'
      /\ \A i \in DOMAIN found' : i = Len(found) + 1 \/ i \in DOMAIN found
  BY <1>2
<1>4. FoundDirs' = FoundDirs \cup {x.dir}
  BY <1>2, <1>3 DEF FoundDirs
<1>5. LoadedIds' = LoadedIds \cup {IdOf[x.dir]}
  BY <1>2, <1>3 DEF LoadedIds
<1>6. ASSUME FoundGood, x.dir \notin FoundDirs,
             NEW i \in DOMAIN found', NEW j \in DOMAIN found', found'[i].dir = found'[j].dir
      PROVE  i = j
  BY <1>2, <1>3, <1>6 DEF FoundGood, FoundDirs
<1> QED
  BY <1>2, <1>4, <1>5, <1>6

\* An enclave's directory is found, and the walk ends there: LoadEnclave and
\* LoadWithoutParts.
LEMMA FindStep ==
  ASSUME LoaderInv, NEW d \in Dir, Visiting(d), ParsesAsEnclave(d),
         NEW P \in SUBSET Dir, found' = Append(found, [dir |-> d, parts |-> P]),
         open' = Pop(d, open), UNCHANGED <<file, outcome, torn>>,
         faults' \in 0 .. MaxFaults, faults' = 0 => faults = 0 /\ ConvertsAll(d)
  PROVE  LoaderInv'
<1> DEFINE x == [dir |-> d, parts |-> P]
<1>1. LoaderTypeOK /\ WalkApart /\ FoundGood /\ NothingMissed /\ WalkedOut
  BY DEF LoaderInv, WalkInv
<1>2. x \in Loaded /\ x.dir = d
  BY DEF Loaded
<1>3. /\ Joined(open)' = Joined(open) \ {d} /\ Disjoint(open)' /\ open' \in Seq(SUBSET Dir)
      /\ Joined(open) \subseteq Dir /\ d \in Joined(open) /\ d \notin FoundDirs
      /\ \A a \in Ancestors[d] : a \notin Joined(open) /\ ~ ParsesAsEnclave(a)
  BY <1>1, VisitedApart
<1>4. /\ found' \in Seq(Loaded) /\ FoundDirs' = FoundDirs \cup {d}
      /\ \A i, j \in DOMAIN found' : found'[i].dir = found'[j].dir => i = j
  BY <1>1, <1>2, <1>3, OneMore
<1>5. LoaderTypeOK'
  BY <1>1, <1>3, <1>4 DEF LoaderTypeOK
<1>6. WalkApart'
  BY <1>1, <1>3, <1>4, FilesStay DEF WalkApart
<1>7. FoundGood'
  BY <1>1, <1>3, <1>4, FilesStay DEF FoundGood, Outermost
<1>8. NothingMissed'
  <2> SUFFICES ASSUME faults = 0, NEW o \in Outermost, o # d, o \notin FoundDirs
               PROVE  ({o} \cup Ancestors[o]) \cap (Joined(open) \ {d}) # {}
    BY <1>3, <1>4, FilesStay DEF NothingMissed
  <2>1. d \notin Ancestors[o]
    BY DEF Outermost
  <2> QED
    BY <1>1, <2>1 DEF NothingMissed
<1>9. WalkedOut'
  BY <1>1 DEF Visiting, WalkedOut
<1> QED
  BY <1>5, <1>6, <1>7, <1>8, <1>9 DEF LoaderInv, WalkInv

\* The walk goes on below a directory that is no enclave's.
LEMMA DescendStep ==
  ASSUME LoaderInv, NEW d \in Dir, Descend(d)
  PROVE  LoaderInv'
<1> DEFINE rest == Joined(open) \ {d}
<1>1. LoaderTypeOK /\ WalkApart /\ FoundGood /\ NothingMissed /\ WalkedOut
  BY DEF LoaderInv, WalkInv
<1>2. /\ Visiting(d) /\ ~ ParsesAsEnclave(d) /\ open' = Push(Sub(d), Pop(d, open))
      /\ UNCHANGED <<file, found, outcome, torn, faults>>
  BY DEF Descend
<1>3. /\ Pop(d, open) \in Seq(SUBSET Dir) /\ Disjoint(Pop(d, open))
      /\ Joined(Pop(d, open)) = rest
      /\ Joined(open) \subseteq Dir /\ d \in Joined(open)
      /\ d \notin FoundDirs /\ d \notin Ancestors[d]
      /\ \A a \in Ancestors[d] : a \notin Joined(open) /\ ~ ParsesAsEnclave(a)
  BY <1>1, <1>2, VisitedApart
<1>4. \A c \in Sub(d) : c \in Dir /\ Parent[c] = d /\ Ancestors[c] = {d} \cup Ancestors[d]
  BY AncestorsStep, LoaderAssumption DEF Sub
\* A directory below which a child of d is has d above it as well.
<1>5. \A y \in Dir, c \in Sub(d) : c \in Ancestors[y] => d \in Ancestors[y]
  BY <1>4, AncestorsClosed, LoaderAssumption
<1>6. \A c \in Sub(d) : c \notin rest /\ c \notin FoundDirs
  <2>1. \A c \in Sub(d) : d \in Ancestors[c]
    BY <1>4
  <2> QED
    BY <1>1, <1>3, <2>1 DEF WalkApart
<1>7. /\ open' \in Seq(SUBSET Dir) /\ Disjoint(open)' /\ Joined(open)' = Sub(d) \cup rest
  <2>1. Sub(d) \in SUBSET Dir /\ Sub(d) \cap Joined(Pop(d, open)) = {}
    BY <1>3, <1>4, <1>6
  <2>2. /\ Push(Sub(d), Pop(d, open)) \in Seq(SUBSET Dir)
        /\ Disjoint(Push(Sub(d), Pop(d, open)))
        /\ Joined(Push(Sub(d), Pop(d, open))) = Sub(d) \cup rest
    BY <1>3, <2>1, PushIs
  <2> QED
    BY <1>2, <2>2
<1>8. LoaderTypeOK'
  BY <1>1, <1>2, <1>7 DEF LoaderTypeOK
<1>9. FoundDirs' = FoundDirs /\ LoadedIds' = LoadedIds
  BY <1>2 DEF FoundDirs, LoadedIds
<1>10. WalkApart'
  <2>1. ASSUME NEW y \in Sub(d)
        PROVE  /\ y \notin FoundDirs /\ Ancestors[y] \cap (Sub(d) \cup rest) = {}
               /\ \A a \in Ancestors[y] : ~ ParsesAsEnclave(a)
    <3>1. Ancestors[y] = {d} \cup Ancestors[d]
      BY <1>4
    <3>2. d \notin Sub(d) /\ Ancestors[d] \cap Sub(d) = {}
      BY <1>3, <1>4, <1>5
    <3> QED
      BY <1>2, <1>3, <1>6, <3>1, <3>2
  <2>2. ASSUME NEW y \in rest
        PROVE  /\ y \notin FoundDirs /\ Ancestors[y] \cap (Sub(d) \cup rest) = {}
               /\ \A a \in Ancestors[y] : ~ ParsesAsEnclave(a)
    <3>1. y \in Dir /\ y \in Joined(open)
      BY <1>3
    <3>2. y \notin FoundDirs /\ Ancestors[y] \cap Joined(open) = {}
          /\ \A a \in Ancestors[y] : ~ ParsesAsEnclave(a)
      BY <1>1, <3>1 DEF WalkApart
    <3>3. d \notin Ancestors[y]
      BY <1>3, <3>2
    <3>4. Ancestors[y] \cap Sub(d) = {}
      BY <1>5, <3>1, <3>3
    <3> QED
      BY <3>2, <3>4
  <2>3. ASSUME NEW f \in FoundDirs PROVE Ancestors[f] \cap (Sub(d) \cup rest) = {}
    <3>1. f \in Dir /\ Ancestors[f] \cap Joined(open) = {}
      BY <1>1, FoundInTree DEF WalkApart
    <3>2. d \notin Ancestors[f]
      BY <1>3, <3>1
    <3>3. Ancestors[f] \cap Sub(d) = {}
      BY <1>5, <3>1, <3>2
    <3> QED
      BY <3>1, <3>3
  <2> HIDE DEF rest
  <2> QED
    BY <1>2, <1>7, <1>9, <2>1, <2>2, <2>3, FilesStay DEF WalkApart
<1>11. FoundGood'
  BY <1>1, <1>2, <1>9, FilesStay DEF FoundGood
<1>12. NothingMissed'
  <2> SUFFICES ASSUME faults = 0, NEW o \in Outermost, o \notin FoundDirs
               PROVE  ({o} \cup Ancestors[o]) \cap (Sub(d) \cup rest) # {}
    BY <1>2, <1>7, <1>9, FilesStay DEF NothingMissed
  <2>1. o \in Dir /\ o # d
    BY <1>2 DEF Outermost
  <2>2. PICK y \in {o} \cup Ancestors[o] : y \in Joined(open)
    BY <1>1 DEF NothingMissed
  <2>3. CASE y = d
    <3>1. d \in Ancestors[o]
      BY <2>1, <2>2, <2>3
    <3> QED
      BY <2>1, <3>1, ChildBetween
  <2>4. CASE y # d
    BY <2>2, <2>4
  <2> QED
    BY <2>3, <2>4
<1>13. WalkedOut'
  BY <1>1, <1>2, <1>9 DEF Visiting, WalkedOut
<1> QED
  BY <1>8, <1>10, <1>11, <1>12, <1>13 DEF LoaderInv, WalkInv

\* A directory that cannot be listed is passed over.
LEMMA PassOver ==
  ASSUME LoaderInv, NEW d \in Dir, Unlistable(d)
  PROVE  LoaderInv'
<1>1. LoaderTypeOK /\ WalkApart /\ FoundGood /\ WalkedOut
  BY DEF LoaderInv, WalkInv
<1>2. /\ Visiting(d) /\ open' = Pop(d, open) /\ faults' = faults + 1 /\ faults < MaxFaults
      /\ UNCHANGED <<file, found, outcome, torn>>
  BY DEF Unlistable
<1>3. /\ Joined(open)' = Joined(open) \ {d} /\ Disjoint(open)' /\ open' \in Seq(SUBSET Dir)
  BY <1>1, <1>2, VisitedApart
<1>4. faults' \in 0 .. MaxFaults /\ faults' # 0
  BY <1>1, <1>2, LoaderAssumption DEF LoaderTypeOK
<1>5. FoundDirs' = FoundDirs /\ LoadedIds' = LoadedIds
  BY <1>2 DEF FoundDirs, LoadedIds
<1>6. LoaderTypeOK'
  BY <1>1, <1>2, <1>3, <1>4 DEF LoaderTypeOK
<1>7. WalkApart'
  BY <1>1, <1>2, <1>3, <1>5, FilesStay DEF WalkApart
<1>8. FoundGood' /\ NothingMissed'
  BY <1>1, <1>2, <1>4, <1>5, FilesStay DEF FoundGood, NothingMissed
<1>9. WalkedOut'
  BY <1>1, <1>2, <1>5 DEF Visiting, WalkedOut
<1> QED
  BY <1>6, <1>7, <1>8, <1>9 DEF LoaderInv, WalkInv

\* Steps that neither visit nor find.
LEMMA StandStill ==
  ASSUME LoaderInv, UNCHANGED <<file, open, found>>, faults' = 0 => faults = 0,
         LoaderTypeOK', WalkedOut'
  PROVE  LoaderInv'
<1>1. WalkApart /\ FoundGood /\ NothingMissed
  BY DEF LoaderInv, WalkInv
<1>2. FoundDirs' = FoundDirs /\ Joined(open)' = Joined(open) /\ Disjoint(open)' = Disjoint(open)
  BY DEF FoundDirs
<1>3. WalkApart' /\ FoundGood' /\ NothingMissed'
  BY <1>1, <1>2, FilesStay DEF WalkApart, FoundGood, NothingMissed
<1> QED
  BY <1>3 DEF LoaderInv, WalkInv

LEMMA WalkInit == LoaderInit => LoaderInv
<1> SUFFICES ASSUME LoaderInit PROVE LoaderInv
  OBVIOUS
<1>1. /\ file \in [Dir -> FileRec] /\ open = Push(Sub(Root), <<>>) /\ found = <<>>
      /\ outcome = "walking" /\ torn = {} /\ faults = 0
  BY DEF LoaderInit, Files
<1>2. /\ <<>> \in Seq(SUBSET Dir) /\ Disjoint(<<>>) /\ Joined(<<>>) = {}
  BY DEF Disjoint, Joined
<1>3. Sub(Root) \in SUBSET Dir
  BY DEF Sub
<1>4. open \in Seq(SUBSET Dir) /\ Disjoint(open) /\ Joined(open) = Sub(Root)
  <2>1. Sub(Root) \cap Joined(<<>>) = {}
    BY <1>2
  <2>2. /\ Push(Sub(Root), <<>>) \in Seq(SUBSET Dir) /\ Disjoint(Push(Sub(Root), <<>>))
        /\ Joined(Push(Sub(Root), <<>>)) = Sub(Root) \cup Joined(<<>>)
    BY <1>2, <1>3, <2>1, PushIs
  <2> QED
    BY <1>1, <1>2, <2>2
<1>5. FoundDirs = {} /\ LoadedIds = {} /\ DOMAIN found = {}
  BY <1>1 DEF FoundDirs, LoadedIds
<1>6. LoaderTypeOK
  BY <1>1, <1>4, LoaderAssumption DEF LoaderTypeOK
<1>7. WalkApart
  <2>1. \A c \in Sub(Root) : Ancestors[c] = {}
    BY AncestorsStep DEF Sub
  <2> QED
    BY <1>4, <1>5, <2>1 DEF WalkApart
<1>8. FoundGood /\ WalkedOut
  BY <1>1, <1>5 DEF FoundGood, WalkedOut
<1>9. NothingMissed
  <2> SUFFICES ASSUME NEW o \in Outermost
               PROVE  ({o} \cup Ancestors[o]) \cap Joined(open) # {}
    BY DEF NothingMissed
  <2>1. PICK c \in Sub(Root) : c \in Ancestors[o] \cup {o}
    BY TopAbove DEF Outermost
  <2> QED
    BY <1>4, <2>1
<1> QED
  BY <1>6, <1>7, <1>8, <1>9 DEF LoaderInv, WalkInv

LEMMA WalkStep == LoaderInv /\ [LoaderNext]_loaderVars => LoaderInv'
<1> SUFFICES ASSUME LoaderInv, [LoaderNext]_loaderVars PROVE LoaderInv'
  OBVIOUS
<1>1. LoaderTypeOK /\ WalkedOut /\ MaxFaults \in Nat
  BY LoaderAssumption DEF LoaderInv, WalkInv
<1>2. ASSUME NEW d \in Dir, LoadEnclave(d) PROVE LoaderInv'
  <2>1. Wanted(d) \in SUBSET Dir
    BY DEF Wanted, Listed, Sub
  <2>2. /\ Visiting(d) /\ ParsesAsEnclave(d) /\ ConvertsAll(d) /\ open' = Pop(d, open)
        /\ found' = Append(found, [dir |-> d, parts |-> Wanted(d)])
        /\ UNCHANGED <<file, outcome, torn>> /\ faults' = faults
    BY <1>2 DEF LoadEnclave
  <2>3. faults' \in 0 .. MaxFaults
    BY <1>1, <2>2 DEF LoaderTypeOK
  <2> QED
    BY <2>1, <2>2, <2>3, FindStep
<1>3. ASSUME NEW d \in Dir, LoadWithoutParts(d) PROVE LoaderInv'
  <2>1. /\ Visiting(d) /\ ParsesAsEnclave(d) /\ open' = Pop(d, open)
        /\ found' = Append(found, [dir |-> d, parts |-> {}])
        /\ UNCHANGED <<file, outcome, torn>> /\ faults' = faults + 1 /\ faults < MaxFaults
    BY <1>3 DEF LoadWithoutParts
  <2>2. faults' \in 0 .. MaxFaults /\ faults' # 0
    BY <1>1, <2>1 DEF LoaderTypeOK
  <2>3. {} \in SUBSET Dir
    OBVIOUS
  <2> QED
    BY <2>1, <2>2, <2>3, FindStep
<1>4. ASSUME NEW d \in Dir, Descend(d) PROVE LoaderInv'
  BY <1>4, DescendStep
<1>5. ASSUME NEW d \in Dir, Unlistable(d) PROVE LoaderInv'
  BY <1>5, PassOver
<1>6. ASSUME NEW d \in Dir, Misfit(d) PROVE LoaderInv'
  <2>1. outcome = "walking" /\ outcome' = "failed" /\ UNCHANGED <<file, open, found, torn, faults>>
    BY <1>6 DEF Misfit, Visiting
  <2>2. LoaderTypeOK' /\ WalkedOut'
    BY <1>1, <2>1 DEF LoaderTypeOK, WalkedOut, LoadedIds
  <2> QED
    BY <2>1, <2>2, StandStill
<1>7. ASSUME NoRoot \/ \E d \in Dir : Unreadable(d) PROVE LoaderInv'
  <2>1. /\ outcome = "walking" /\ outcome' = "failed" /\ faults' = faults + 1
        /\ faults < MaxFaults /\ UNCHANGED <<file, open, found, torn>>
    BY <1>7 DEF NoRoot, Unreadable, Visiting
  <2>2. faults' \in 0 .. MaxFaults /\ faults' # 0
    BY <1>1, <2>1 DEF LoaderTypeOK
  <2>3. LoaderTypeOK' /\ WalkedOut'
    BY <1>1, <2>1, <2>2 DEF LoaderTypeOK, WalkedOut, LoadedIds
  <2> QED
    BY <2>1, <2>2, <2>3, StandStill
<1>8. CASE FinishWalk
  <2>1. LoaderTypeOK' /\ WalkedOut'
    BY <1>1, <1>8 DEF FinishWalk, LoaderTypeOK, WalkedOut, LoadedIds
  <2> QED
    BY <1>8, <2>1, StandStill DEF FinishWalk
<1>9. CASE Compare
  <2>1. outcome = "loaded" /\ outcome' = "compared" /\ torn' = Stored \ LoadedIds
        /\ UNCHANGED <<file, open, found, faults>> /\ LoadedIds' = LoadedIds
    BY <1>9 DEF Compare, LoadedIds
  <2>2. torn' \subseteq Stored
    BY <2>1
  <2>3. LoaderTypeOK' /\ WalkedOut'
    BY <1>1, <2>1, <2>2 DEF LoaderTypeOK, WalkedOut
  <2> QED
    BY <2>1, <2>3, StandStill
<1>10. CASE UNCHANGED loaderVars
  <2>1. LoaderTypeOK' /\ WalkedOut'
    BY <1>1, <1>10 DEF loaderVars, LoaderTypeOK, WalkedOut, LoadedIds
  <2> QED
    BY <1>10, <2>1, StandStill DEF loaderVars
<1> QED
  BY <1>2, <1>3, <1>4, <1>5, <1>6, <1>7, <1>8, <1>9, <1>10 DEF LoaderNext

LEMMA LoaderHolds == LoaderSpec => []LoaderInv
<1>1. LoaderInit => LoaderInv
  BY WalkInit
<1>2. LoaderInv /\ [LoaderNext]_loaderVars => LoaderInv'
  BY WalkStep
<1> QED
  BY <1>1, <1>2, PTL DEF LoaderSpec

\* collect_enclaves' stack and result keep their types.
THEOREM LoaderTyped == LoaderSpec => []LoaderTypeOK
BY LoaderHolds, PTL DEF LoaderInv

\* collect_enclaves visits each directory once, in whatever order: what is to be
\* visited is below no enclave, and nothing outermost is passed over.
THEOREM WalkCorrect == LoaderSpec => []WalkInv
BY LoaderHolds, PTL DEF LoaderInv

\* A walk that has ended has found the outermost enclaves.
LEMMA WalkEnds ==
  ASSUME LoaderInv, outcome \in {"loaded", "refused", "compared"}, faults = 0
  PROVE  FoundDirs = Outermost
<1>1. open = <<>>
  BY DEF LoaderInv, WalkInv, WalkedOut
<1>2. Joined(open) = {}
  BY <1>1 DEF Joined
<1> QED
  BY <1>2 DEF LoaderInv, WalkInv, FoundGood, NothingMissed

\* A load that succeeds has every outermost enclave of the tree, once, with all its
\* files converted, whatever the tree and the order its directories are listed in.
THEOREM AllLoaded == LoaderSpec => []LoadsThemAll
<1>1. LoaderInv => LoadsThemAll
  <2> SUFFICES ASSUME LoaderInv, outcome \in {"loaded", "refused", "compared"}, faults = 0
               PROVE  /\ FoundDirs = Outermost
                      /\ Len(found) = Cardinality(Outermost)
                      /\ \A d \in Outermost : ConvertsAll(d)
    BY DEF LoadsThemAll
  <2>1. FoundDirs = Outermost
    BY WalkEnds
  <2>2. FoundGood /\ DOMAIN found = 1 .. Len(found) /\ Len(found) \in Nat
    BY FoundInTree DEF LoaderInv, WalkInv
  <2> DEFINE dirs == [i \in 1 .. Len(found) |-> found[i].dir]
  <2>3. dirs \in Injection(1 .. Len(found), FoundDirs)
    BY <2>2, Fun_IsInj DEF FoundGood, FoundDirs
  <2>4. dirs \in Surjection(1 .. Len(found), FoundDirs)
    BY <2>2, Fun_IsSurj DEF FoundDirs
  <2>5. ExistsBijection(1 .. Len(found), FoundDirs)
    BY <2>3, <2>4 DEF ExistsBijection, Bijection
  <2>6. Len(found) = Cardinality(Outermost)
    BY <2>1, <2>2, <2>5, FS_CountingElements
  <2> QED
    BY <2>1, <2>2, <2>6 DEF FoundGood
<1> QED
  BY <1>1, LoaderHolds, PTL

\* reconcile() tears down no enclave that an outermost file of the tree names.
THEOREM DeclaredStays == LoaderSpec => []TornOnlyIfUndeclared
<1>1. LoaderInv => TornOnlyIfUndeclared
  <2> SUFFICES ASSUME LoaderInv, faults = 0, torn # {}
               PROVE  torn \cap {IdOf[d] : d \in Outermost} = {}
    BY DEF TornOnlyIfUndeclared
  <2>1. torn \cap LoadedIds = {} /\ outcome \in {"refused", "compared"}
    BY DEF LoaderInv, WalkInv, WalkedOut, LoaderTypeOK
  <2>2. FoundDirs = Outermost
    BY <2>1, WalkEnds
  <2>3. LoadedIds = {IdOf[d] : d \in FoundDirs}
    BY DEF LoadedIds, FoundDirs
  <2> QED
    BY <2>1, <2>2, <2>3
<1> QED
  BY <1>1, LoaderHolds, PTL

-----------------------------------------------------------------------------
(* The first element of a sequence and the last enclave of an id exist. *)

\* A set of naturals that is not empty has a least element.
LEMMA Least ==
  ASSUME NEW S \in SUBSET Nat, S # {}
  PROVE  \E n \in S : \A m \in S : n <= m
<1>1. IsWellFoundedOn(OpToRel(<, Nat), Nat)
  BY NatLessThanWellFounded
<1>2. PICK x \in S : \A y \in S : ~ (<<y, x>> \in OpToRel(<, Nat))
  BY <1>1, WFMin
<1>3. \A y \in S : ~ y < x
  <2> SUFFICES ASSUME NEW y \in S, y < x PROVE FALSE
    OBVIOUS
  <2>1. <<y, x>> \in OpToRel(<, Nat)
    BY DEF OpToRel
  <2> QED
    BY <1>2, <2>1
<1> QED
  BY <1>3

\* iter().find() returns the first place where the test holds, if there is one.
LEMMA FirstIs ==
  ASSUME NEW S \in SUBSET Nat, S # {}
  PROVE  First(S) \in S
<1>1. \E n \in S : \A m \in S : n <= m
  BY Least
<1> QED
  BY <1>1 DEF First

\* by_id: the last enclave of an id, where there is one.
LEMMA LastIs ==
  ASSUME TypeOK, NEW id, Known(id)
  PROVE  /\ LastOf(id) \in Place /\ enclaves[LastOf(id)].id = id
         /\ \A j \in Place : enclaves[j].id = id => j <= LastOf(id)
<1>1. PICK n \in Nat : Place = 1 .. n
  BY ConfigAssumption DEF TypeOK, Place
<1> DEFINE D == {i \in Place : enclaves[i].id = id}
           R == {n - i : i \in D}
<1>2. D \subseteq 1 .. n /\ D # {}
  BY <1>1 DEF Known
<1>3. R \in SUBSET Nat /\ R # {}
  BY <1>2
<1>4. PICK r \in R : \A m \in R : r <= m
  BY <1>3, Least
<1>5. PICK i \in D : r = n - i
  OBVIOUS
<1>6. \A j \in D : j <= i
  <2> SUFFICES ASSUME NEW j \in D PROVE j <= i
    OBVIOUS
  <2>1. n - j \in R
    OBVIOUS
  <2>2. n - i <= n - j
    BY <2>1, <1>4, <1>5
  <2> QED
    BY <2>2, <1>2
<1>7. \E i_1 \in Place : /\ enclaves[i_1].id = id
                          /\ \A j \in Place : enclaves[j].id = id => j <= i_1
  BY <1>6
<1> QED
  BY <1>7 DEF LastOf

-----------------------------------------------------------------------------
(* What an enclave without errors is. *)

Clean(e) == MissingOutputs(e) = {} /\ Mismatches(e) = {} /\ ImportErrors(e) = {}

\* The sequences of an enclave hold what their types say.
LEMMA Parts ==
  ASSUME TypeOK, NEW i \in Place
  PROVE  /\ enclaves[i] \in Enclave
         /\ enclaves[i].exports \in Seq(ExportRec) /\ enclaves[i].parts \in Seq(PartRec)
         /\ enclaves[i].id \in Id
<1>1. enclaves \in Seq(Enclave)
  BY ConfigAssumption DEF TypeOK
<1>2. enclaves[i] \in Enclave
  BY <1>1 DEF Place
<1> QED
  BY <1>2 DEF Enclave

\* An import that check_import finds good has an export that permits it.
LEMMA GoodImport ==
  ASSUME TypeOK, NEW importer, NEW m, Verdict(importer, m) = "ok"
  PROVE  Known(m.from) /\ Resolves(importer, m)
<1> DEFINE last == LastOf(m.from)
           exports == enclaves[last].exports
           places == Named(exports, m.name)
<1>1. Known(m.from)
  BY DEF Verdict
<1>2. last \in Place /\ enclaves[last].id = m.from
  BY <1>1, LastIs
<1>3. places # {} /\ Permits(ExportOf(m), importer)
  BY <1>1 DEF Verdict
<1>4. exports \in Seq(ExportRec)
  BY <1>2, Parts
<1>5. First(places) \in places
  <2>1. places \in SUBSET Nat
    BY <1>4 DEF Named
  <2> QED
    BY <1>3, <2>1, FirstIs
<1>6. ExportOf(m) \in Elems(exports) /\ ExportOf(m).name = m.name
  BY <1>5 DEF ExportOf, Named, Elems
<1> QED
  BY <1>1, <1>2, <1>3, <1>6 DEF Resolves

\* No error means a sound enclave, and a typed one where names are unique.
LEMMA CleanIsSound ==
  ASSUME TypeOK, NEW i \in Place, Clean(enclaves[i])
  PROVE  Sound(enclaves[i]) /\ (UniqueNames => Typed(enclaves[i]))
<1> DEFINE e == enclaves[i]
<1>1. \A m \in Imports(e) : Verdict(e.id, m) = "ok"
  BY DEF Clean, ImportErrors
<1>2. \A m \in Imports(e) : Resolves(e.id, m)
  BY <1>1, GoodImport
<1>3. \A p \in Elems(e.parts) : Required(p.produces) \subseteq p.outputs
  <2> SUFFICES ASSUME NEW p \in Elems(e.parts), NEW k \in Required(p.produces), k \notin p.outputs
               PROVE  FALSE
    OBVIOUS
  <2>1. [kind |-> "MissingRequiredOutput", part |-> p.id, key |-> k] \in MissingOutputs(e)
    BY DEF MissingOutputs
  <2> QED
    BY <2>1 DEF Clean
<1>4. ASSUME UniqueNames PROVE Typed(e)
  <2> SUFFICES ASSUME NEW x \in Elems(e.exports), NEW p \in Elems(e.parts), p.id = x.target
               PROVE  p.produces \in {"nothing", x.type}
    BY DEF Typed
  <2> DEFINE places == Called(e.parts, x.target)
  <2>1. PICK n \in DOMAIN e.parts : p = e.parts[n]
    BY DEF Elems
  <2>2. n \in places
    BY <2>1 DEF Called
  <2>3. First(places) \in places
    <3>1. places \in SUBSET Nat
      BY Parts DEF Called
    <3> QED
      BY <2>2, <3>1, FirstIs
  <2>4. First(places) = n
    BY <1>4, <2>1, <2>3 DEF UniqueNames, Elems, Place, Called
  <2>5. e.parts[First(places)].produces \in {"nothing", x.type}
    BY <2>2 DEF Clean, Mismatches
  <2> QED
    BY <2>1, <2>4, <2>5
<1> QED
  BY <1>2, <1>3, <1>4 DEF Sound

-----------------------------------------------------------------------------
(* The inductive invariant: errors and wiring are those of the enclaves that  *)
(* have been checked, and an accepted order is one of those toposort returns. *)

Checked == /\ errors = {} => \A i \in 1 .. at - 1 : Clean(enclaves[i])
           /\ \A i \in 1 .. at - 1 : Wires(enclaves[i]) \subseteq wiring

Judged == /\ result = "accepted" => /\ errors = {} /\ at = Len(enclaves) + 1
                                    /\ order \in Orders
          /\ result = "rejected" => errors # {}
          /\ result = "cycle" => Orders = {}

\* Errors and wiring come of an enclave of the configuration.
Caused == /\ \A x \in errors : \E i \in Place : ~ Clean(enclaves[i])
          /\ \A w \in wiring : \E i \in Place : w \in Wires(enclaves[i])

GraphInv == TypeOK /\ Checked /\ Judged /\ Caused

\* A sound and typed enclave has no error, where ids and names are unique.
LEMMA SoundIsClean ==
  ASSUME TypeOK, UniqueIds, UniqueNames,
         NEW i \in Place, Sound(enclaves[i]), Typed(enclaves[i])
  PROVE  Clean(enclaves[i])
<1> DEFINE e == enclaves[i]
<1>1. MissingOutputs(e) = {}
  BY DEF Sound, MissingOutputs
<1>2. Mismatches(e) = {}
  <2> SUFFICES ASSUME NEW x \in Elems(e.exports), Called(e.parts, x.target) # {}
               PROVE  e.parts[First(Called(e.parts, x.target))].produces \in {"nothing", x.type}
    BY DEF Mismatches
  <2> DEFINE places == Called(e.parts, x.target)
  <2>1. places \in SUBSET Nat
    BY Parts DEF Called
  <2>2. First(places) \in places
    BY <2>1, FirstIs
  <2>3. e.parts[First(places)] \in Elems(e.parts) /\ e.parts[First(places)].id = x.target
    BY <2>2 DEF Called, Elems
  <2> QED
    BY <2>3 DEF Typed
<1>3. ASSUME NEW m \in Imports(e) PROVE Verdict(e.id, m) = "ok"
  <2>1. PICK j \in Place : /\ enclaves[j].id = m.from
                           /\ \E x \in Elems(enclaves[j].exports) :
                                x.name = m.name /\ Permits(x, e.id)
    BY DEF Sound, Resolves
  <2>2. Known(m.from)
    BY <2>1 DEF Known
  <2>3. LastOf(m.from) = j
    BY <2>1, <2>2, LastIs DEF UniqueIds
  <2> DEFINE exports == enclaves[j].exports
             places == Named(exports, m.name)
  <2>4. PICK k \in DOMAIN exports : exports[k].name = m.name /\ Permits(exports[k], e.id)
    BY <2>1 DEF Elems
  <2>5. k \in places
    BY <2>4 DEF Named
  <2>6. First(places) \in places
    <3>1. places \in SUBSET Nat
      BY Parts DEF Named
    <3> QED
      BY <2>5, <3>1, FirstIs
  <2>7. First(places) = k
    <3>1. enclaves[j] \in Elems(enclaves)
      BY DEF Elems, Place
    <3> QED
      BY <2>4, <2>6, <3>1 DEF UniqueNames, Named
  <2>8. ExportOf(m) = exports[k]
    BY <2>3, <2>7 DEF ExportOf
  <2> QED
    BY <2>2, <2>3, <2>4, <2>5, <2>8 DEF Verdict
<1> QED
  BY <1>1, <1>2, <1>3 DEF Clean, ImportErrors

\* check_import's wires name what the configuration names.
LEMMA WiresTyped ==
  ASSUME TypeOK, NEW i \in Place
  PROVE  Wires(enclaves[i]) \subseteq WireRec
<1> DEFINE e == enclaves[i]
<1>1. e.imports \in Seq(ImportRec) /\ \A p \in Elems(e.parts) : p.imports \in Seq(ImportRec)
  <2>1. e.imports \in Seq(ImportRec)
    BY Parts DEF Enclave
  <2>2. Elems(e.parts) \subseteq PartRec
    BY Parts DEF Elems
  <2> QED
    BY <2>1, <2>2 DEF PartRec
<1>2. Imports(e) \subseteq ImportRec
  BY <1>1 DEF Imports, Elems
<1>3. \A m \in Imports(e) : m.from \in Id /\ m.name \in Name
  BY <1>2 DEF ImportRec
<1> QED
  BY <1>3, Parts DEF Wires, WireRec

LEMMA InitInv == Init => GraphInv
<1> SUFFICES ASSUME Init PROVE GraphInv
  OBVIOUS
<1>1. enclaves \in Seq(Enclave) /\ Len(enclaves) \in Nat
  BY ConfigAssumption DEF Init
<1> QED
  BY <1>1 DEF Init, GraphInv, TypeOK, Checked, Judged, Caused

\* What only looks at the configuration does not change with the rest.
LEMMA Same ==
  ASSUME UNCHANGED enclaves
  PROVE  /\ Place' = Place
         /\ \A i \in Place : Clean(enclaves[i])' = Clean(enclaves[i])
                             /\ Wires(enclaves[i])' = Wires(enclaves[i])
BY DEF Place, Clean, Wires, MissingOutputs, Mismatches, ImportErrors, Verdict, ExportOf,
       Known, LastOf

\* The checks are done with: only result and order change.
LEMMA AfterChecks ==
  ASSUME GraphInv, UNCHANGED <<enclaves, at, errors, wiring>>, TypeOK'
  PROVE  Checked' /\ Orders' = Orders /\ Caused'
<1>1. Place = 1 .. Len(enclaves) /\ Len(enclaves) \in Nat /\ at \in 1 .. Len(enclaves) + 1
  BY ConfigAssumption DEF GraphInv, TypeOK, Place
<1>2. \A i \in 1 .. at - 1 : i \in Place
  BY <1>1
<1>3. Checked'
  BY <1>2, Same DEF GraphInv, Checked
<1>4. Orders' = Orders
  BY Same DEF Orders, Edges, LastOf, Place
<1>5. Caused'
  BY Same DEF GraphInv, Caused
<1> QED
  BY <1>3, <1>4, <1>5

LEMMA StepInv == GraphInv /\ [Next]_vars => GraphInv'
<1> SUFFICES ASSUME GraphInv, [Next]_vars PROVE GraphInv'
  OBVIOUS
<1> USE DEF GraphInv
<1>1. enclaves \in Seq(Enclave) /\ Len(enclaves) \in Nat /\ Place = 1 .. Len(enclaves)
  BY ConfigAssumption DEF TypeOK, Place
<1>2. CASE Check
  <2>1. at \in Place /\ at' = at + 1 /\ UNCHANGED <<enclaves, result, order>> /\ result = "checking"
    BY <1>1, <1>2 DEF Check, TypeOK
  <2> DEFINE e == enclaves[at]
  <2>2. wiring' = wiring \cup Wires(e)
    BY <1>2 DEF Check
  <2>3. TypeOK'
    BY <1>1, <2>1, <2>2, WiresTyped DEF TypeOK, Place
  <2>4. \A i \in Place : Clean(enclaves[i])' = Clean(enclaves[i])
                          /\ Wires(enclaves[i])' = Wires(enclaves[i])
    BY <2>1, Same
  <2>5. errors' = {} => errors = {} /\ Clean(e)
    BY <1>2 DEF Check, Clean
  <2>6. \A i \in 1 .. at' - 1 : i \in Place /\ (i = at \/ i \in 1 .. at - 1)
    BY <1>1, <2>1
  <2>7. Checked'
    BY <2>1, <2>2, <2>4, <2>5, <2>6 DEF Checked
  <2>8. Caused'
    <3>1. errors' # errors => ~ Clean(e)
      BY <1>2 DEF Check, Clean
    <3>2. \A x \in errors' : \E i \in Place : ~ Clean(enclaves[i])
      BY <2>1, <3>1 DEF Caused
    <3>3. \A w \in wiring' : \E i \in Place : w \in Wires(enclaves[i])
      BY <2>1, <2>2 DEF Caused
    <3>4. Place' = Place
      BY <2>1, Same
    <3> QED
      BY <2>4, <3>2, <3>3, <3>4 DEF Caused
  <2> QED
    BY <2>1, <2>3, <2>7, <2>8 DEF Judged
<1>3. CASE Reject
  <2>1. TypeOK'
    BY <1>3 DEF Reject, TypeOK, Place
  <2> QED
    BY <1>3, <2>1, AfterChecks DEF Reject, Judged
<1>4. CASE Cycle
  <2>1. TypeOK'
    BY <1>4 DEF Cycle, TypeOK, Place
  <2> QED
    BY <1>4, <2>1, AfterChecks DEF Cycle, Judged
<1>5. CASE Accept
  <2>1. TypeOK'
    BY <1>5 DEF Accept, TypeOK, Place, Orders
  <2>2. errors = {} /\ at = Len(enclaves) + 1 /\ order' \in Orders
    BY <1>1, <1>5 DEF Accept, TypeOK
  <2>3. Checked' /\ Orders' = Orders
    BY <1>5, <2>1, AfterChecks DEF Accept
  <2>4. Caused'
    BY <1>5, <2>1, AfterChecks DEF Accept
  <2> QED
    BY <1>5, <2>1, <2>2, <2>3, <2>4 DEF Accept, Judged
<1>6. CASE UNCHANGED vars
  <2>1. TypeOK'
    BY <1>6 DEF vars, TypeOK, Place
  <2>2. Checked' /\ Orders' = Orders /\ Caused'
    BY <1>6, <2>1, AfterChecks DEF vars
  <2> QED
    BY <1>6, <2>1, <2>2 DEF vars, Judged
<1> QED
  BY <1>2, <1>3, <1>4, <1>5, <1>6 DEF Next

-----------------------------------------------------------------------------
(* The theorems. *)

LEMMA InvHolds == Spec => []GraphInv
<1>1. Init => GraphInv
  BY InitInv
<1>2. GraphInv /\ [Next]_vars => GraphInv'
  BY StepInv
<1> QED
  BY <1>1, <1>2, PTL DEF Spec

\* validate()'s accumulators have their types at every point of the checks.
THEOREM GraphTyped == Spec => []TypeOK
BY InvHolds, PTL DEF GraphInv

\* An accepted configuration has been checked to the end without an error.
LEMMA AcceptedClean ==
  ASSUME GraphInv, result = "accepted"
  PROVE  \A i \in Place : Clean(enclaves[i]) /\ Wires(enclaves[i]) \subseteq wiring
<1>1. enclaves \in Seq(Enclave) /\ Len(enclaves) \in Nat /\ Place = 1 .. Len(enclaves)
  BY ConfigAssumption DEF GraphInv, TypeOK, Place
<1> QED
  BY <1>1 DEF GraphInv, Checked, Judged

\* validate() accepts no import without an export that permits it, and no
\* partition without the outputs its type requires, whatever the configuration.
THEOREM AcceptedIsSound == Spec => []AcceptedSound
<1>1. GraphInv => AcceptedSound
  <2> SUFFICES ASSUME GraphInv, result = "accepted", NEW i \in Place
               PROVE  Sound(enclaves[i]) /\ (UniqueNames => Typed(enclaves[i]))
    BY DEF AcceptedSound, Elems, Place
  <2> QED
    BY AcceptedClean, CleanIsSound DEF GraphInv
<1> QED
  BY <1>1, InvHolds, PTL

\* A function from a finite set to itself that is one-to-one is onto.
LEMMA Onto ==
  ASSUME NEW n \in Nat, NEW f \in [1 .. n -> 1 .. n],
         \A i, j \in 1 .. n : f[i] = f[j] => i = j
  PROVE  Elems(f) = 1 .. n
<1>1. f \in Injection(1 .. n, 1 .. n)
  BY Fun_IsInj
<1>2. IsFiniteSet(1 .. n)
  BY FS_Interval
<1>3. f \in Surjection(1 .. n, 1 .. n)
  BY <1>1, <1>2, FS_Injection
<1>4. \A t \in 1 .. n : \E s \in 1 .. n : f[s] = t
  BY <1>3 DEF Surjection
<1>5. DOMAIN f = 1 .. n /\ \A s \in 1 .. n : f[s] \in 1 .. n
  OBVIOUS
<1>6. Elems(f) = {f[s] : s \in 1 .. n}
  BY <1>5 DEF Elems
<1> QED
  BY <1>4, <1>5, <1>6

\* reconcile() meets every enclave of the configuration once, and never before
\* one it imports from.
THEOREM ImportersFollow == Spec => []ExportersFirst
<1>1. GraphInv => ExportersFirst
  <2> SUFFICES ASSUME GraphInv, result = "accepted" PROVE ExportersFirst
    BY DEF ExportersFirst
  <2>1. PICK n \in Nat : Place = 1 .. n
    BY ConfigAssumption DEF GraphInv, TypeOK, Place
  <2>2. /\ order \in [Place -> Place]
        /\ \A i, j \in Place : order[i] = order[j] => i = j
        /\ \A i, j \in Place : <<order[i], order[j]>> \in Edges => i < j
    BY DEF GraphInv, Judged, Orders
  <2>3. Elems(order) = Place
    BY <2>1, <2>2, Onto
  <2>4. ASSUME UniqueIds, NEW i \in Place, NEW j \in Place, i # j, Imported(order[i], order[j])
        PROVE  i < j
    <3> DEFINE e == enclaves[order[j]]
    <3>1. order[i] \in Place /\ order[j] \in Place /\ order[i] # order[j]
      BY <2>2, <2>4
    <3>2. PICK m \in Imports(e) : m.from = enclaves[order[i]].id
      BY <2>4 DEF Imported
    <3>3. Clean(e) /\ Wires(e) \subseteq wiring
      BY <3>1, AcceptedClean
    <3>4. Verdict(e.id, m) = "ok"
      BY <3>3 DEF Clean, ImportErrors
    <3> DEFINE w == [importer |-> e.id, from |-> m.from, name |-> m.name]
    <3>5. w \in wiring
      BY <3>3, <3>4 DEF Wires
    <3>6. w.from # w.importer
      BY <2>4, <3>1, <3>2 DEF UniqueIds
    <3>7. LastOf(w.from) = order[i] /\ LastOf(w.importer) = order[j]
      <4>1. Known(w.from) /\ Known(w.importer)
        BY <3>1, <3>2 DEF Known
      <4>2. /\ LastOf(w.from) \in Place /\ enclaves[LastOf(w.from)].id = w.from
            /\ LastOf(w.importer) \in Place /\ enclaves[LastOf(w.importer)].id = w.importer
        BY <4>1, LastIs DEF GraphInv
      <4> QED
        BY <2>4, <3>1, <3>2, <4>2 DEF UniqueIds
    <3>8. <<order[i], order[j]>> \in Edges
      BY <3>5, <3>6, <3>7 DEF Edges
    <3> QED
      BY <2>2, <3>8
  <2> QED
    BY <2>3, <2>4 DEF ExportersFirst
<1> QED
  BY <1>1, InvHolds, PTL

\* The edges toposort is given are imports, where ids are unique.
LEMMA EdgesAreImports ==
  ASSUME GraphInv, UniqueIds, NEW i \in Place, NEW j \in Place, <<i, j>> \in Edges
  PROVE  i # j /\ Imported(i, j)
<1>1. PICK w \in wiring : w.from # w.importer /\ i = LastOf(w.from) /\ j = LastOf(w.importer)
  BY DEF Edges
<1>2. PICK k \in Place : w \in Wires(enclaves[k])
  BY DEF GraphInv, Caused
<1>3. PICK m \in Imports(enclaves[k]) :
        Verdict(enclaves[k].id, m) = "ok" /\ w.from = m.from /\ w.importer = enclaves[k].id
  BY <1>2 DEF Wires
<1>4. Known(w.from) /\ Known(w.importer)
  BY <1>3 DEF Verdict, Known
<1>5. enclaves[i].id = w.from /\ enclaves[j].id = w.importer
  BY <1>1, <1>4, LastIs DEF GraphInv
<1>6. j = k
  BY <1>3, <1>5 DEF UniqueIds
<1> QED
  BY <1>1, <1>3, <1>5, <1>6 DEF Imported

\* An injection of fewer numbers leaves one out.
LEMMA LeftOut ==
  ASSUME NEW n \in Nat, NEW k \in Nat, k < n, NEW f \in [1 .. k -> 1 .. n],
         \A i, j \in 1 .. k : f[i] = f[j] => i = j
  PROVE  1 .. n \ Elems(f) # {}
<1> SUFFICES ASSUME Elems(f) = 1 .. n PROVE FALSE
  BY DEF Elems
<1>1. f \in Injection(1 .. k, 1 .. n)
  BY Fun_IsInj
<1>2. \A t \in 1 .. n : \E s \in 1 .. k : f[s] = t
  BY DEF Elems
<1>3. f \in Surjection(1 .. k, 1 .. n)
  BY <1>2, Fun_IsSurj
<1>4. IsFiniteSet(1 .. k) /\ Cardinality(1 .. k) = k
  BY FS_Interval
<1>5. IsFiniteSet(1 .. n) /\ Cardinality(1 .. n) = n
  BY FS_Interval
<1>6. Cardinality(1 .. n) <= Cardinality(1 .. k)
  BY <1>3, <1>4, FS_Surjection
<1> QED
  BY <1>4, <1>5, <1>6

\* The first k places of an order: each once, and no edge into one of them but from
\* one that comes before it.
Beginnings(k) ==
  {f \in [1 .. k -> Place] :
     /\ \A i, j \in 1 .. k : f[i] = f[j] => i = j
     /\ \A j \in 1 .. k, p \in Place : <<p, f[j]>> \in Edges =>
          \E i \in 1 .. j - 1 : f[i] = p}

\* A beginning goes on for as long as imports make no circle: of the places that
\* are left one has no edge from another of them.
LEMMA GoesOn ==
  ASSUME GraphInv, UniqueIds, ~ Cyclic,
         NEW n \in Nat, Place = 1 .. n, NEW k \in Nat, k < n, NEW f \in Beginnings(k)
  PROVE  Beginnings(k + 1) # {}
<1> DEFINE S == Place \ Elems(f)
<1>1. /\ f \in [1 .. k -> Place] /\ \A i, j \in 1 .. k : f[i] = f[j] => i = j
      /\ \A j \in 1 .. k, p \in Place : <<p, f[j]>> \in Edges =>
           \E i \in 1 .. j - 1 : f[i] = p
  BY DEF Beginnings
<1>2. S # {}
  BY <1>1, LeftOut
<1>3. PICK q \in S : \A p \in S \ {q} : ~ Imported(p, q)
  BY <1>2 DEF Cyclic
<1>4. q \in Place /\ \A i \in 1 .. k : f[i] # q
  BY <1>1 DEF Elems
<1>5. \A p \in Place : <<p, q>> \in Edges => \E i \in 1 .. k : f[i] = p
  <2> SUFFICES ASSUME NEW p \in Place, <<p, q>> \in Edges PROVE p \in Elems(f)
    BY <1>1 DEF Elems
  <2>1. p # q /\ Imported(p, q)
    BY <1>4, EdgesAreImports
  <2> QED
    BY <1>3, <2>1
<1> DEFINE g == [i \in 1 .. k + 1 |-> IF i = k + 1 THEN q ELSE f[i]]
<1>6. /\ g \in [1 .. k + 1 -> Place] /\ g[k + 1] = q
      /\ \A i \in 1 .. k : i \in 1 .. k + 1 /\ g[i] = f[i]
      /\ \A i \in 1 .. k + 1 : i = k + 1 \/ i \in 1 .. k
  BY <1>1, <1>4
<1> HIDE DEF g
<1>7. \A i, j \in 1 .. k + 1 : g[i] = g[j] => i = j
  BY <1>1, <1>4, <1>6
<1>8. ASSUME NEW j \in 1 .. k + 1, NEW p \in Place, <<p, g[j]>> \in Edges
      PROVE  \E i \in 1 .. j - 1 : g[i] = p
  <2>1. CASE j = k + 1
    BY <1>5, <1>6, <1>8, <2>1
  <2>2. CASE j \in 1 .. k
    <3>1. PICK i \in 1 .. j - 1 : f[i] = p
      BY <1>1, <1>6, <1>8, <2>2
    <3>2. i \in 1 .. k
      BY <2>2
    <3> QED
      BY <1>6, <3>1, <3>2
  <2> QED
    BY <1>6, <2>1, <2>2
<1>9. g \in Beginnings(k + 1)
  BY <1>6, <1>7, <1>8 DEF Beginnings
<1> QED
  BY <1>9

\* toposort finds an order where imports make no circle: a longest beginning has
\* every place.
LEMMA OrderExists ==
  ASSUME GraphInv, UniqueIds, ~ Cyclic
  PROVE  Orders # {}
<1>1. PICK n \in Nat : Place = 1 .. n
  BY ConfigAssumption DEF GraphInv, TypeOK, Place
<1> DEFINE short == {n - k : k \in {l \in 0 .. n : Beginnings(l) # {}}}
<1>2. Beginnings(0) # {}
  <2>1. <<>> \in [1 .. 0 -> Place] /\ 1 .. 0 = {}
    OBVIOUS
  <2>2. <<>> \in Beginnings(0)
    BY <2>1 DEF Beginnings
  <2> QED
    BY <2>2
<1>3. short \in SUBSET Nat /\ n \in short
  BY <1>2
<1>4. PICK s \in short : \A t \in short : s <= t
  BY <1>3, Least
<1>5. PICK k \in 0 .. n : s = n - k /\ Beginnings(k) # {}
  OBVIOUS
<1>6. k = n
  <2> SUFFICES ASSUME k < n PROVE FALSE
    OBVIOUS
  <2>1. PICK f \in Beginnings(k) : TRUE
    BY <1>5
  <2>2. k \in Nat /\ k + 1 \in 0 .. n
    OBVIOUS
  <2>3. Beginnings(k + 1) # {}
    BY <1>1, <2>2, GoesOn
  <2>4. n - (k + 1) \in short
    BY <2>2, <2>3
  <2>5. s <= n - (k + 1)
    BY <1>4, <2>4
  <2> HIDE DEF short
  <2> QED
    BY <1>5, <2>2, <2>5
<1>7. PICK f \in Beginnings(n) : TRUE
  BY <1>5, <1>6
<1>8. /\ f \in [Place -> Place] /\ \A i, j \in Place : f[i] = f[j] => i = j
      /\ \A j \in Place, p \in Place : <<p, f[j]>> \in Edges =>
           \E i \in 1 .. j - 1 : f[i] = p
  BY <1>1, <1>7 DEF Beginnings
<1>9. ASSUME NEW i \in Place, NEW j \in Place, <<f[i], f[j]>> \in Edges PROVE i < j
  <2>1. PICK l \in 1 .. j - 1 : f[l] = f[i]
    BY <1>8, <1>9
  <2>2. l \in Place /\ l < j
    BY <1>1, <2>1
  <2> QED
    BY <1>8, <2>1, <2>2
<1>10. f \in Orders
  BY <1>8, <1>9 DEF Orders
<1> QED
  BY <1>10

\* validate() refuses a configuration for a reason the configuration gives: an
\* enclave that is not sound or not typed, or imports in a circle.
THEOREM RefusalsCaused == Spec => []RefusedForCause
<1>1. GraphInv => RefusedForCause
  <2> SUFFICES ASSUME GraphInv, result \in {"rejected", "cycle"}, UniqueIds, UniqueNames, ~ Cyclic
               PROVE  \E e \in Elems(enclaves) : ~ Sound(e) \/ ~ Typed(e)
    BY DEF RefusedForCause
  <2>1. result = "rejected"
    BY OrderExists DEF GraphInv, Judged
  <2>2. PICK i \in Place : ~ Clean(enclaves[i])
    BY <2>1 DEF GraphInv, Judged, Caused
  <2>3. ~ Sound(enclaves[i]) \/ ~ Typed(enclaves[i])
    BY <2>2, SoundIsClean DEF GraphInv
  <2> QED
    BY <2>3 DEF Elems, Place
<1> QED
  BY <1>1, InvHolds, PTL

=============================================================================

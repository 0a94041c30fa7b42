---------------------------- MODULE ConfigLoader ----------------------------
(***************************************************************************)
(* nclav-config's load_enclaves() and what reconcile() concludes from it:  *)
(* the directory tree is walked depth first, in whatever order the system  *)
(* lists a directory; a config.yml that parses as an enclave ends the walk *)
(* of its branch; and an enclave of the store that the walk did not find   *)
(* is torn down.  A directory is abstracted to what its config.yml is good *)
(* for, see FileKinds.                                                     *)
(***************************************************************************)
EXTENDS Naturals, Sequences, FiniteSets

CONSTANTS
  Dir,        \* the directories below the one load_enclaves is given
  Root,       \* that one
  Parent,     \* [Dir -> Dir \cup {Root}]
  IdOf,       \* [Dir -> enclave ids]: the id in the directory's config.yml
  Stored,     \* the enclaves of the store when reconcile() reads it
  Kinds,      \* the FileKinds that occur
  MaxFaults   \* bound: directories and files that cannot be read

FileKinds ==
  {"none",         \* no config.yml
   "enclave",      \* an enclave, with exports
   "misfit",       \* an enclave, an export of which has an unknown type or auth
   "broken",       \* meant for an enclave, but not of RawEnclave's shape: a
                   \*   field is missing, a port is no u16
   "partition",    \* a partition that produces, imports or exports something
   "badpartition", \* a partition with an unknown backend or produces type
   "bare"}         \* a partition that declares nothing

ASSUME LoaderAssumption ==
  /\ IsFiniteSet(Dir) /\ Root \notin Dir /\ Parent \in [Dir -> Dir \cup {Root}]
  /\ \A S \in (SUBSET Dir) \ {{}} : \E d \in S : Parent[d] \notin S  \* a tree
  /\ DOMAIN IdOf = Dir
  /\ Kinds \subseteq FileKinds /\ MaxFaults \in Nat

VARIABLES
  file,     \* per directory: its config.yml, and is it named in its parent's
            \*   list of partitions?
  open,     \* the walk: a stack of the directories still to be visited
  found,    \* the enclaves loaded so far: their directory and their partitions
  outcome,  \* "refused" is validate()'s; "compared" once torn is known
  torn,     \* the enclaves reconcile() tears down
  faults

loaderVars == <<file, open, found, outcome, torn, faults>>

FileRec == [kind : Kinds, named : BOOLEAN]
Loaded  == [dir : Dir, parts : SUBSET Dir]

LoaderTypeOK ==
  /\ file \in [Dir -> FileRec]
  /\ open \in Seq(SUBSET Dir) /\ found \in Seq(Loaded)
  /\ outcome \in {"walking", "loaded", "failed", "refused", "compared"}
  /\ torn \subseteq Stored /\ faults \in 0 .. MaxFaults

Sub(d) == {c \in Dir : Parent[c] = d}

\* Directories to be visited join the walk, one that has been visited leaves it.
Push(ds, s) == IF ds = {} THEN s ELSE <<ds>> \o s
Pop(d, s)   == Push(Head(s) \ {d}, Tail(s))

\* Only an enclave's file has a list of partitions, which may be left out.
Files == {f \in [Dir -> FileRec] :
            \A d \in Dir : f[d].named => /\ Parent[d] # Root
                                         /\ f[Parent[d]].kind = "enclave"}

LoaderInit ==
  /\ file \in Files
  /\ open = Push(Sub(Root), <<>>) /\ found = <<>>
  /\ outcome = "walking" /\ torn = {} /\ faults = 0

----------------------------------------------------------------------------
(* What serde and the convert_ functions make of a file. *)

ParsesAsEnclave(d)   == file[d].kind \in {"enclave", "misfit"}
\* An enclave's file has all a partition's needs: an id and a name.
ParsesAsPartition(d) == file[d].kind \in {"enclave", "misfit", "partition",
                                          "badpartition", "bare"}
Converts(d)          == file[d].kind \notin {"misfit", "badpartition"}
\* With no partitions list a file that declares nothing is passed over.
Declares(d)          == file[d].kind # "bare"

Listed(d) == {c \in Sub(d) : file[c].named}

\* The subdirectories convert_enclave reads, and those that fail it.
Wanted(d) == IF Listed(d) # {} THEN Listed(d)
             ELSE {c \in Sub(d) : ParsesAsPartition(c) /\ Declares(c)}
ConvertsAll(d) == Converts(d) /\ \A c \in Wanted(d) : ParsesAsPartition(c) /\ Converts(c)

----------------------------------------------------------------------------
(* collect_enclaves, one directory at a time. *)

Visiting(d) == outcome = "walking" /\ open # <<>> /\ d \in Head(open)

LoadAndDescend_faulty(d) ==
  /\ Visiting(d) /\ ParsesAsEnclave(d) /\ ConvertsAll(d)
  /\ found' = Append(found, [dir |-> d, parts |-> Wanted(d)])
  /\ open' = Push(Sub(d), Pop(d, open))
  /\ UNCHANGED <<file, outcome, torn, faults>>

\* An enclave's file is converted with its partitions; its subdirectories are
\* not searched for enclaves.
LoadEnclave(d) ==
  /\ Visiting(d) /\ ParsesAsEnclave(d) /\ ConvertsAll(d)
  /\ found' = Append(found, [dir |-> d, parts |-> Wanted(d)])
  /\ open' = Pop(d, open)
  /\ UNCHANGED <<file, outcome, torn, faults>>

\* One value that does not convert, in the enclave or in a partition of its, ends
\* the load: nothing of it is used.
Misfit(d) ==
  /\ Visiting(d) /\ ParsesAsEnclave(d) /\ ~ ConvertsAll(d)
  /\ outcome' = "failed"
  /\ UNCHANGED <<file, open, found, torn, faults>>

\* Anything else is no enclave: the walk goes on below it, in silence.
Descend_faulty(d) ==
  /\ Visiting(d) /\ ~ ParsesAsEnclave(d)
  /\ open' = Pop(d, open)
  /\ UNCHANGED <<file, found, outcome, torn, faults>>

Descend(d) ==
  /\ Visiting(d) /\ ~ ParsesAsEnclave(d)
  /\ open' = Push(Sub(d), Pop(d, open))
  /\ UNCHANGED <<file, found, outcome, torn, faults>>

\* The directory load_enclaves is given must be listable.
NoRoot ==
  /\ outcome = "walking" /\ open = Push(Sub(Root), <<>>) /\ found = <<>>
  /\ faults < MaxFaults
  /\ faults' = faults + 1 /\ outcome' = "failed"
  /\ UNCHANGED <<file, open, found, torn>>

\* A config.yml that exists but cannot be read, an enclave's or one of its
\* partitions', ends the load.
Unreadable(d) ==
  /\ Visiting(d) /\ file[d].kind # "none" /\ faults < MaxFaults
  /\ faults' = faults + 1 /\ outcome' = "failed"
  /\ UNCHANGED <<file, open, found, torn>>

\* A directory that cannot be listed does not: it counts as empty.
Unlistable(d) ==
  /\ Visiting(d) /\ ~ ParsesAsEnclave(d) /\ Sub(d) # {} /\ faults < MaxFaults
  /\ faults' = faults + 1 /\ open' = Pop(d, open)
  /\ UNCHANGED <<file, found, outcome, torn>>

\* The scan for partitions passes over a directory it cannot list.
LoadWithoutParts(d) ==
  /\ Visiting(d) /\ ParsesAsEnclave(d) /\ Converts(d) /\ Listed(d) = {}
  /\ Sub(d) # {} /\ faults < MaxFaults
  /\ faults' = faults + 1
  /\ found' = Append(found, [dir |-> d, parts |-> {}])
  /\ open' = Pop(d, open)
  /\ UNCHANGED <<file, outcome, torn>>

LoadedIds == {IdOf[found[i].dir] : i \in DOMAIN found}

\* validate() may refuse what was loaded: EnclaveGraph says when.
FinishWalk ==
  /\ outcome = "walking" /\ open = <<>>
  /\ outcome' \in {"loaded", "refused"}
  /\ UNCHANGED <<file, open, found, torn, faults>>

\* reconcile() tears down what the store has and the load has not.
CompareAlways_faulty ==
  /\ outcome \in {"loaded", "failed"} /\ outcome' = "compared"
  /\ torn' = Stored \ LoadedIds
  /\ UNCHANGED <<file, open, found, faults>>

Compare ==
  /\ outcome = "loaded" /\ outcome' = "compared"
  /\ torn' = Stored \ LoadedIds
  /\ UNCHANGED <<file, open, found, faults>>

LoaderNext ==
  \/ \E d \in Dir : LoadEnclave(d) \/ Misfit(d) \/ Descend(d)
                     \/ Unreadable(d) \/ Unlistable(d) \/ LoadWithoutParts(d)
  \/ NoRoot \/ FinishWalk \/ Compare

LoaderSpec == LoaderInit /\ [][LoaderNext]_loaderVars

----------------------------------------------------------------------------
(* Properties. *)

\* The directories between d and Root: those in every set that has d's parent and
\* its members' parents.
Ancestors == [d \in Dir |-> {a \in Dir : \A S \in SUBSET Dir :
               (\A x \in S \cup {d} : Parent[x] \in S \cup {Root}) => a \in S}]

\* The enclaves a reader of the directory tree would list: files of an enclave's
\* shape that are not inside another enclave's directory.
Outermost == {d \in Dir : ParsesAsEnclave(d) /\ \A a \in Ancestors[d] : ~ ParsesAsEnclave(a)}

FoundDirs == {found[i].dir : i \in DOMAIN found}

\* The directories in a stack, and that each is there once.
Joined(s)   == UNION {s[i] : i \in DOMAIN s}
Disjoint(s) == \A i, j \in DOMAIN s : i # j => s[i] \cap s[j] = {}

\* What is still to be visited is below no enclave, and nothing of it below another,
\* or below or above what was found.
WalkApart ==
  /\ Disjoint(open)
  /\ \A d \in Joined(open) :
       /\ d \notin FoundDirs /\ Ancestors[d] \cap Joined(open) = {}
       /\ \A a \in Ancestors[d] : ~ ParsesAsEnclave(a)
  /\ \A d \in FoundDirs : Ancestors[d] \cap Joined(open) = {}

\* What was found is an outermost enclave, found once, and converted as a whole.
FoundGood ==
  /\ FoundDirs \subseteq Outermost
  /\ \A i, j \in DOMAIN found : found[i].dir = found[j].dir => i = j
  /\ faults = 0 => \A d \in FoundDirs : ConvertsAll(d)

\* What was not found is still to be visited, or below such a directory.
NothingMissed ==
  faults = 0 =>
    \A d \in Outermost : d \in FoundDirs \/ ({d} \cup Ancestors[d]) \cap Joined(open) # {}

WalkedOut ==
  /\ outcome \in {"loaded", "refused", "compared"} => open = <<>>
  /\ outcome \in {"walking", "loaded", "failed"} => torn = {}
  /\ torn \cap LoadedIds = {}

\* Each directory is visited once, and collect_enclaves' return from an enclave's
\* directory cuts off what is below it and nothing else.
WalkInv == WalkApart /\ FoundGood /\ NothingMissed /\ WalkedOut

\* Whatever order directories are listed in, a load that succeeds has every
\* outermost enclave once, and one that met a value it cannot convert does not
\* succeed (collect_enclaves, convert_enclave).
LoadsThemAll ==
  outcome \in {"loaded", "refused", "compared"} /\ faults = 0 =>
    /\ FoundDirs = Outermost
    /\ Len(found) = Cardinality(Outermost)
    /\ \A d \in Outermost : ConvertsAll(d)

\* Nothing is torn down but what no outermost file of the tree names: a value that
\* does not convert, a partition's file gone wrong or a second file of the same id
\* never costs an enclave.  (A file that is no longer of an enclave's shape does:
\* to the loader it names none.)
TornOnlyIfUndeclared ==
  faults = 0 => torn \cap {IdOf[d] : d \in Outermost} = {}

=============================================================================

------------------------ MODULE StackRegistryProofs ------------------------
(***************************************************************************)
(* Why sorting the registered paths by length and taking the first that is  *)
(* a prefix finds the stack that registered the nearest directory above a   *)
(* file, for every registry and every file whose paths are well formed.     *)
(*                                                                          *)
(* Under the assumptions of WellFormed, lstrip leaves the file as it is,    *)
(* and the registered prefixes of it are the registered directories above   *)
(* it.  Two of them differ in length, so that the longest is one directory; *)
(* those who registered it are told apart by their places alone.            *)
(***************************************************************************)
EXTENDS StackRegistry, FiniteSetProofs, SequenceTheorems

\* A path the claim is about: it is a file, and neither it nor what is registered
\* begins with what lstrip removes.
WellFormed(registry, path) ==
    /\ IsRegistry(registry) /\ PathsAreDirectories(registry, {})
    /\ path \in Path /\ Head(path) \notin {".", "/"} /\ Last(path) # "/"

Matching(registry, path) == {p \in RegisteredPaths(registry) : IsPrefix(p.prefix, path)}

OwnersOfDirectory(registry, d) == {i \in DOMAIN registry : Contains(PathsOf(registry[i]), d)}

RegisteredAbove(registry, path) ==
    {d \in DirectoriesAbove(path) : OwnersOfDirectory(registry, d) # {}}

\* lstrip removes nothing.
LEMMA NothingToStrip ==
    ASSUME NEW path \in Path, Head(path) \notin {".", "/"}
    PROVE  Normalised(path) = path
<1> DEFINE I == {i \in 1 .. Len(path) : path[i] \notin {".", "/"}}
<1>1. path \in Seq(STRING) /\ Len(path) \in Nat \ {0}
    BY EmptySeq DEF Path
<1>2. 1 \in I /\ \A i \in I : i \in Int /\ 1 <= i
    BY <1>1
<1>3. Min(I) = 1
    <2>1. \A m \in I : (\A i \in I : m <= i) => m = 1
        BY <1>2
    <2> HIDE DEF I
    <2> QED
        BY <1>2, <2>1 DEF Min
<1>4. SelectInSeq(path, LAMBDA piece : piece \notin {".", "/"}) = 1
    BY <1>2, <1>3 DEF SelectInSeq
<1> QED
    BY <1>1, <1>4, SubSeqFull DEF Normalised

\* STRING, with the one literal that is appended to a directory: the provers do
\* not know that it is text.
Piece == STRING \cup {"/"}

\* What an entry registers are sequences, counted from one.
LEMMA RegisteredAreSequences ==
    ASSUME NEW registry, IsRegistry(registry), NEW i \in DOMAIN registry
    PROVE  /\ PathsOf(registry[i]) \in Seq(Seq(Piece))
           /\ \A d : Contains(PathsOf(registry[i]), d) <=> d \in ToSet(PathsOf(registry[i]))
<1> DEFINE own == Append(registry[i].dir, "/")
<1>1. registry[i].dir \in Seq(STRING) /\ registry[i].paths \in Seq(Seq(STRING))
    BY DEF IsRegistry
<1>2. Seq(STRING) \subseteq Seq(Piece)
    BY SeqMonotonic DEF Piece
<1>3. registry[i].dir \in Seq(Piece) /\ registry[i].paths \in Seq(Seq(Piece))
    BY <1>1, <1>2, SeqMonotonic
<1>4. own \in Seq(Piece)
    BY <1>3, AppendProperties DEF Piece
<1>5. PathsOf(registry[i]) \in Seq(Seq(Piece))
    <2>1. own \in Seq(Piece) => <<own>> \in Seq(Seq(Piece))
        <3> HIDE DEF own
        <3> QED
            OBVIOUS
    <2> QED
        BY <1>3, <1>4, <2>1 DEF PathsOf
<1>6. DOMAIN PathsOf(registry[i]) = 1 .. Len(PathsOf(registry[i]))
    BY <1>5, LenProperties
<1> QED
    BY <1>5, <1>6 DEF Contains, ToSet

\* A registered path, by the entry and the directory.
LEMMA RegisteredByOwner ==
    ASSUME NEW registry, IsRegistry(registry)
    PROVE  RegisteredPaths(registry) =
              {p \in [at : DOMAIN registry, prefix : Seq(Piece)] :
                    p.at \in OwnersOfDirectory(registry, p.prefix)}
<1>1. \A i \in DOMAIN registry : ToSet(PathsOf(registry[i])) \subseteq Seq(Piece)
    <2> TAKE i \in DOMAIN registry
    <2>1. PathsOf(registry[i]) \in Seq(Seq(Piece))
        BY RegisteredAreSequences
    <2>2. \A j \in DOMAIN PathsOf(registry[i]) : PathsOf(registry[i])[j] \in Seq(Piece)
        BY <2>1, LenProperties
    <2> QED
        BY <2>2 DEF ToSet
<1>2. \A i \in DOMAIN registry : \A d :
        d \in ToSet(PathsOf(registry[i])) <=> i \in OwnersOfDirectory(registry, d)
    BY RegisteredAreSequences DEF OwnersOfDirectory
<1>3. ASSUME NEW p \in RegisteredPaths(registry)
      PROVE  /\ p \in [at : DOMAIN registry, prefix : Seq(Piece)]
             /\ p.at \in OwnersOfDirectory(registry, p.prefix)
    <2>1. PICK i \in DOMAIN registry :
            \E d \in ToSet(PathsOf(registry[i])) : p = [at |-> i, prefix |-> d]
        BY DEF RegisteredPaths
    <2>2. PICK d \in ToSet(PathsOf(registry[i])) : p = [at |-> i, prefix |-> d]
        BY <2>1
    <2> QED
        BY <1>1, <1>2, <2>2
<1>4. ASSUME NEW p \in [at : DOMAIN registry, prefix : Seq(Piece)],
             p.at \in OwnersOfDirectory(registry, p.prefix)
      PROVE  p \in RegisteredPaths(registry)
    <2>1. p.at \in DOMAIN registry /\ p.prefix \in ToSet(PathsOf(registry[p.at]))
        BY <1>2, <1>4
    <2>2. p = [at |-> p.at, prefix |-> p.prefix]
        OBVIOUS
    <2> QED
        BY <2>1, <2>2 DEF RegisteredPaths
<1> QED
    BY <1>3, <1>4

\* A directory above a file is told by its length.
LEMMA DirectoriesByLength ==
    ASSUME NEW path \in Path
    PROVE  \A d \in DirectoriesAbove(path) :
              /\ d \in Seq(Piece) /\ Len(d) \in 1 .. Len(path) - 1
              /\ d = SubSeq(path, 1, Len(d)) /\ d = SubSeq(d, 1, Len(d))
<1>1. path \in Seq(Piece) /\ Len(path) \in Nat
    BY SeqMonotonic, LenProperties DEF Path, Piece
<1> TAKE d \in DirectoriesAbove(path)
<1>2. PICK n \in 1 .. Len(path) - 1 : d = SubSeq(path, 1, n)
    BY DEF DirectoriesAbove
<1>3. \A i \in 1 .. n : path[i] \in Piece
    BY <1>1, <1>2, ElementOfSeq
<1>4. d \in Seq(Piece) /\ Len(d) = n
    BY <1>1, <1>2, <1>3, SubSeqProperties
<1>5. d = SubSeq(d, 1, Len(d))
    BY <1>4, SubSeqFull
<1> QED
    BY <1>1, <1>2, <1>4, <1>5

\* The registered prefixes of a file are the registered directories above it.
LEMMA MatchingAreAbove ==
    ASSUME NEW registry, NEW path, WellFormed(registry, path)
    PROVE  Matching(registry, path) =
              {p \in [at : DOMAIN registry, prefix : DirectoriesAbove(path)] :
                    p.at \in OwnersOfDirectory(registry, p.prefix)}
<1>1. IsRegistry(registry) /\ path \in Path /\ path \in Seq(Piece) /\ Len(path) \in Nat
    BY SeqMonotonic, LenProperties DEF WellFormed, Path, Piece
<1>2. ASSUME NEW d \in DirectoriesAbove(path)
      PROVE  d \in Seq(Piece) /\ IsPrefix(d, path)
    BY <1>1, DirectoriesByLength DEF IsPrefix
<1>3. ASSUME NEW p \in RegisteredPaths(registry), IsPrefix(p.prefix, path)
      PROVE  p.prefix \in DirectoriesAbove(path)
    <2> DEFINE d == p.prefix
               n == Len(d)
    <2>1. d \in Seq(Piece)
        BY <1>1, RegisteredByOwner
    <2>2. d # <<>> /\ d[n] = "/"
        BY DEF WellFormed, PathsAreDirectories, Last
    <2> HIDE DEF d
    <2>3. n \in Nat \ {0}
        BY <2>1, <2>2, EmptySeq
    <2>4. d = SubSeq(d, 1, n) /\ SubSeq(d, 1, n) = SubSeq(path, 1, n) /\ n <= Len(path)
        BY <1>3, <2>1, SubSeqFull DEF IsPrefix, d
    <2>5. d = SubSeq(path, 1, n)
        BY <2>4
    <2> HIDE DEF n
    <2>6. \A i \in 1 .. n : path[i] \in Piece
        BY <1>1, <2>3, <2>4, ElementOfSeq
    <2>7. path[n] = "/"
        <3>1. \A i \in 1 .. n - 1 + 1 : SubSeq(path, 1, n)[i] = path[1 + i - 1]
            BY <2>3, <2>6, SubSeqProperties
        <3>2. n \in 1 .. n - 1 + 1 /\ 1 + n - 1 = n
            BY <2>3
        <3>3. SubSeq(path, 1, n)[n] = path[n]
            BY <3>1, <3>2
        <3> QED
            BY <2>2, <2>5, <3>3 DEF n
    <2>8. n # Len(path)
        BY <2>7 DEF WellFormed, Last
    <2>9. n \in 1 .. Len(path) - 1
        BY <1>1, <2>3, <2>4, <2>8
    <2> QED
        BY <2>5, <2>7, <2>9 DEF DirectoriesAbove, d
<1> QED
    BY <1>1, <1>2, <1>3, RegisteredByOwner DEF Matching

\* The nearest registered directory is one directory.
LEMMA NearestIsOne ==
    ASSUME NEW registry, NEW path, WellFormed(registry, path),
           RegisteredAbove(registry, path) # {}
    PROVE  \E d \in RegisteredAbove(registry, path) :
              \A e \in RegisteredAbove(registry, path) :
                  e \in DirectoriesAbove(path) /\ Len(d) >= Len(e) /\ (Len(d) = Len(e) => d = e)
<1> DEFINE R == RegisteredAbove(registry, path)
           lengths == {n \in 1 .. Len(path) - 1 : \E d \in R : n = Len(d)}
<1>1. path \in Path /\ Len(path) \in Nat
    BY LenProperties DEF WellFormed, Path
<1>2. \A d \in R : d \in DirectoriesAbove(path) /\ Len(d) \in lengths /\ d = SubSeq(path, 1, Len(d))
    BY <1>1, DirectoriesByLength DEF RegisteredAbove
<1>3. IsFiniteSet(lengths) /\ lengths \subseteq Int
    <2>1. IsFiniteSet(1 .. Len(path) - 1) /\ 1 .. Len(path) - 1 \subseteq Int
        BY <1>1, FS_Interval
    <2>2. lengths \subseteq 1 .. Len(path) - 1
        OBVIOUS
    <2> HIDE DEF lengths
    <2> QED
        BY <2>1, <2>2, FS_Subset, Zenon
<1>4. lengths # {}
    BY <1>2
<1>5. PICK m \in lengths : \A n \in lengths : m >= n
    <2> HIDE DEF lengths
    <2> QED
        BY <1>3, <1>4, FiniteExtremes
<1>6. PICK d \in R : Len(d) = m
    OBVIOUS
<1> QED
    BY <1>2, <1>5, <1>6

(***************************************************************************)
(* The stack a file belongs to, as select_stacks finds it, is the one that  *)
(* registered the nearest directory above the file, the first of them when  *)
(* several did, or none: for every registry and every file with paths that  *)
(* are well formed.                                                         *)
(***************************************************************************)
THEOREM OwnersAreNearest ==
    ASSUME NEW registry, NEW path, WellFormed(registry, path)
    PROVE  OwnersOf(registry, path) = NearestOwner(registry, path)
<1> DEFINE R == RegisteredAbove(registry, path)
           owners(d) == OwnersOfDirectory(registry, d)
           M == Matching(registry, path)
           nearest == CHOOSE d \in R : \A e \in R : Len(d) >= Len(e)
           first == Min(owners(nearest))
           best == {q \in M : \A r \in M : Preferred(q, r)}
<1>1. OwnersOf(registry, path) = {registry[p.at].name : p \in best}
    BY NothingToStrip DEF OwnersOf, Matching, WellFormed
<1>2. NearestOwner(registry, path) = IF R = {} THEN {} ELSE {registry[first].name}
    BY DEF NearestOwner, RegisteredAbove, OwnersOfDirectory
<1>3. M = {p \in [at : DOMAIN registry, prefix : DirectoriesAbove(path)] :
                p.at \in owners(p.prefix)}
    BY MatchingAreAbove
<1>4. \A p \in M : p.prefix \in R
    BY <1>3 DEF RegisteredAbove
<1>5. CASE R = {}
    BY <1>1, <1>2, <1>4, <1>5
<1>6. CASE R # {}
    <2>1. /\ nearest \in R
          /\ \A e \in R : Len(nearest) >= Len(e)
        <3>1. \E d \in R : \A e \in R : Len(d) >= Len(e)
            BY <1>6, NearestIsOne
        <3> HIDE DEF R
        <3> QED
            BY <3>1
    <2>2. \A d, e \in R : Len(d) \in Int /\ Len(e) \in Int /\ (Len(d) = Len(e) => d = e)
        BY DirectoriesByLength DEF WellFormed, RegisteredAbove
    <2> HIDE DEF nearest
    <2>3. /\ IsFiniteSet(owners(nearest)) /\ owners(nearest) \subseteq Int
          /\ owners(nearest) # {} /\ nearest \in DirectoriesAbove(path)
        <3>1. IsFiniteSet(DOMAIN registry) /\ DOMAIN registry \subseteq Int
            BY FS_Interval DEF WellFormed, IsRegistry
        <3>2. owners(nearest) \subseteq DOMAIN registry /\ owners(nearest) # {}
            BY <2>1 DEF OwnersOfDirectory, RegisteredAbove
        <3>3. nearest \in DirectoriesAbove(path)
            BY <2>1 DEF RegisteredAbove
        <3> HIDE DEF owners
        <3> QED
            BY <3>1, <3>2, <3>3, FS_Subset
    <2>4. first \in owners(nearest) /\ \A i \in owners(nearest) : first <= i
        <3>1. \E m \in owners(nearest) : \A n \in owners(nearest) : m <= n
            BY <2>3, FiniteExtremes
        <3> HIDE DEF owners
        <3> QED
            BY <3>1 DEF Min
    <2> DEFINE chosen == [at |-> first, prefix |-> nearest]
    <2>5. chosen \in M
        BY <1>3, <2>3, <2>4 DEF OwnersOfDirectory
    <2>6. \A r \in M : Preferred(chosen, r)
        <3> SUFFICES ASSUME NEW r \in M PROVE Preferred(chosen, r)
            OBVIOUS
        <3>1. r.prefix \in R /\ r.at \in owners(r.prefix)
            BY <1>3, <1>4
        <3>2. Len(nearest) > Len(r.prefix) \/ nearest = r.prefix
            BY <2>1, <2>2, <3>1
        <3> QED
            BY <2>4, <3>1, <3>2 DEF Preferred
    <2>7. \A q \in best : q.at = first
        <3> SUFFICES ASSUME NEW q \in best PROVE q.at = first
            OBVIOUS
        <3>1. q \in M /\ q.prefix \in R /\ q.at \in owners(q.prefix)
            BY <1>3, <1>4
        <3>2. Preferred(q, chosen) /\ Preferred(chosen, q)
            BY <2>5, <2>6, <3>1
        <3>3. Len(q.prefix) = Len(nearest) /\ q.at <= first /\ first <= q.at
            BY <2>1, <2>2, <3>1, <3>2 DEF Preferred
        <3>4. q.prefix = nearest
            BY <2>1, <2>2, <3>1, <3>3
        <3>5. q.at \in Int /\ first \in Int
            BY <2>3, <2>4, <3>1, <3>4
        <3> QED
            BY <3>3, <3>5
    <2>8. best # {} /\ \A q \in best : q.at = first
        BY <2>5, <2>6, <2>7
    <2> HIDE DEF best, first
    <2> QED
        BY <1>1, <1>2, <1>6, <2>8
<1> QED
    BY <1>5, <1>6

\* A stack that is selected is one of the registry's.
LEMMA SelectedAreRegistered ==
    ASSUME NEW registry, NEW files
    PROVE  SelectStacks(registry, files) \subseteq Names(registry)
<1>1. \A p \in RegisteredPaths(registry) : p.at \in DOMAIN registry
    BY DEF RegisteredPaths
<1> QED
    BY <1>1 DEF SelectStacks, OwnersOf, Names

=============================================================================

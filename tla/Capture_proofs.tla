----------------------------- MODULE Capture_proofs -----------------------------
(***************************************************************************)
(* Proofs about Capture for every length of the ring, batch, file and      *)
(* listing, every clock and any number of files and restarts: no record is *)
(* lost without being counted, what a run recorded reads back in order,    *)
(* and pruning deletes neither too much nor out of turn.                   *)
(***************************************************************************)
EXTENDS Capture, TLAPS, FiniteSetTheorems, FunctionTheorems, WellFoundedInduction

LEMMA Constants ==
    /\ RingLen \in Nat \ {0} /\ BatchMax \in Nat \ {0} /\ DirMax \in Nat \ {0} /\ Bumps \in Nat \ {0}
    /\ MaxRecs \in Nat /\ MaxOffered \in Nat /\ MaxBorn \in Nat
    /\ Limits \subseteq Nat /\ Clocks \subseteq Nat \ {0} /\ Bumps > MaxBorn
  BY CaptureAssumption, FreeNameAssumption

(* ----------------------------- finite orders ----------------------------- *)

\* Every set of naturals that is not empty has a least element.
LEMMA LeastNatural ==
    ASSUME NEW S \in SUBSET Nat, S # {}
    PROVE  \E n \in S : \A m \in S : n <= m
<1> DEFINE R == OpToRel(<, Nat)
<1>1. IsWellFoundedOn(R, Nat)
  BY NatLessThanWellFounded
<1>2. \E n \in S : \A m \in S : ~(<<m, n>> \in R)
  <2> HIDE DEF R
  <2> QED BY <1>1, WFMin
<1>3. \A m, n \in Nat : <<m, n>> \in R <=> m < n
  BY DEF OpToRel
<1> HIDE DEF R
<1>4. PICK n \in S : \A m \in S : ~(<<m, n>> \in R)
  BY <1>2
<1>5. \A m \in S : ~(m < n)
  BY <1>3, <1>4
<1>6. \A m \in S : n <= m
  BY <1>5
<1> QED BY <1>6

\* The names later than f, among finitely many.
LEMMA LaterFinite ==
    ASSUME NEW L, IsFiniteSet(L), NEW f
    PROVE  /\ IsFiniteSet(Later(f, L)) /\ Cardinality(Later(f, L)) \in Nat
           /\ Later(f, L) \subseteq L
  BY FS_Subset, FS_CardinalityType DEF Later

\* A later name has fewer names after it.
LEMMA LaterHasFewer ==
    ASSUME NEW L, IsFiniteSet(L), L \subseteq FileType, NEW g \in L, NEW h \in Later(g, L)
    PROVE  Cardinality(Later(h, L)) < Cardinality(Later(g, L))
<1>1. \A x \in L : x.stamp \in Nat
  BY DEF FileType
<1>2. h \in L /\ h.stamp > g.stamp
  BY DEF Later
<1>3. Later(h, L) \in SUBSET Later(g, L)
  BY <1>1, <1>2 DEF Later
<1>4. h \notin Later(h, L)
  BY <1>1, <1>2 DEF Later
<1>5. /\ IsFiniteSet(Later(g, L))
      /\ Cardinality(Later(g, L)) \in Nat /\ Cardinality(Later(h, L)) \in Nat
  BY LaterFinite
<1>6. Cardinality(Later(h, L)) <= Cardinality(Later(g, L))
      /\ Cardinality(Later(h, L)) # Cardinality(Later(g, L))
  BY <1>3, <1>4, <1>5, FS_Subset
<1> QED BY <1>5, <1>6

\* Of the names after one that has m or more, m at least have fewer than m.
LEMMA EnoughStay ==
    ASSUME NEW L, IsFiniteSet(L), L \subseteq FileType, NEW m \in Nat, NEW f \in FileType,
           Cardinality(Later(f, L)) >= m
    PROVE  Cardinality({g \in Later(f, L) : Cardinality(Later(g, L)) < m}) >= m
<1> DEFINE A == Later(f, L)
           Stay == {g \in A : Cardinality(Later(g, L)) < m}
           Go == A \ Stay
<1>1. IsFiniteSet(A) /\ A \subseteq L /\ Cardinality(A) \in Nat
  BY LaterFinite
<1>2. IsFiniteSet(Stay) /\ Cardinality(Stay) \in Nat
  BY <1>1, FS_Subset, FS_CardinalityType
<1>3. \A g \in A : Cardinality(Later(g, L)) \in Nat
  BY LaterFinite
<1>4. SUFFICES ASSUME Cardinality(Stay) < m PROVE FALSE
  BY <1>2
<1>5. Go # {}
  <2> SUFFICES ASSUME Go = {} PROVE FALSE
    OBVIOUS
  <2>1. Stay = A
    OBVIOUS
  <2> QED BY <1>1, <1>4, <2>1
<1>6. PICK g \in Go : \A h \in Go : Cardinality(Later(g, L)) <= Cardinality(Later(h, L))
  <2> DEFINE Ranks == {Cardinality(Later(h, L)) : h \in Go}
  <2>1. Ranks \in SUBSET Nat /\ Ranks # {}
    BY <1>3, <1>5
  <2>2. PICK r \in Ranks : \A s \in Ranks : r <= s
    BY <2>1, LeastNatural
  <2> QED BY <2>2
<1>7. Later(g, L) \subseteq Stay
  <2> SUFFICES ASSUME NEW h \in Later(g, L) PROVE h \in Stay
    OBVIOUS
  <2>1. h \in A
    <3>1. f.stamp \in Nat /\ \A x \in L : x.stamp \in Nat
      BY DEF FileType
    <3>2. g \in L /\ h \in L /\ h.stamp > g.stamp /\ g.stamp > f.stamp
      BY <1>1 DEF Later
    <3> QED BY <3>1, <3>2 DEF Later
  <2>2. Cardinality(Later(h, L)) < Cardinality(Later(g, L))
    BY <1>1, LaterHasFewer
  <2>3. h \notin Go
    BY <1>3, <1>6, <2>1, <2>2
  <2> QED BY <2>1, <2>3
<1>8. Cardinality(Later(g, L)) <= Cardinality(Stay)
  BY <1>2, <1>7, FS_Subset
<1>9. ~(Cardinality(Later(g, L)) < m)
  OBVIOUS
<1> QED BY <1>2, <1>3, <1>4, <1>8, <1>9

\* At most m names have fewer than m after them, when no two share a second.
LEMMA FewStay ==
    ASSUME NEW L, IsFiniteSet(L), L \subseteq FileType, NEW m \in Nat,
           \A f, g \in L : f.stamp = g.stamp => f = g
    PROVE  Cardinality({g \in L : Cardinality(Later(g, L)) < m}) <= m
<1> DEFINE Stay == {g \in L : Cardinality(Later(g, L)) < m}
<1>1. IsFiniteSet(Stay) /\ Cardinality(Stay) \in Nat
  BY FS_Subset, FS_CardinalityType
<1>2. CASE Stay = {}
  BY <1>2, FS_EmptySet
<1>3. CASE Stay # {}
  <2> DEFINE Stamps == {g.stamp : g \in Stay}
  <2>1. \A x \in L : x.stamp \in Nat
    BY DEF FileType
  <2>2. Stamps \in SUBSET Nat /\ Stamps # {}
    BY <1>3, <2>1
  <2>3. PICK s \in Stamps : \A t \in Stamps : s <= t
    BY <2>2, LeastNatural
  <2>4. PICK g \in Stay : g.stamp = s
    BY <2>3
  <2>5. Stay \ {g} \subseteq Later(g, L)
    <3> SUFFICES ASSUME NEW h \in Stay, h # g PROVE h \in Later(g, L)
      OBVIOUS
    <3>1. h.stamp # g.stamp /\ g.stamp <= h.stamp
      BY <2>3, <2>4
    <3> QED BY <2>1, <3>1 DEF Later
  <2>6. IsFiniteSet(Later(g, L)) /\ Cardinality(Later(g, L)) \in Nat
    BY LaterFinite
  <2>7. Cardinality(Stay \ {g}) <= Cardinality(Later(g, L))
    BY <2>5, <2>6, FS_Subset
  <2>8. Cardinality(Stay \ {g}) = Cardinality(Stay) - 1
    BY <1>1, <2>4, FS_RemoveElement
  <2>9. Cardinality(Later(g, L)) < m
    BY <2>4
  <2> QED BY <1>1, <2>6, <2>7, <2>8, <2>9
<1> QED BY <1>2, <1>3

(* ------------------------------- a free name ----------------------------- *)

\* With fewer files than seconds tried, one of the seconds names no file, and
\* the search ends there.
LEMMA FreeName ==
    ASSUME IsFiniteSet(files), Cardinality(files) < Bumps, files \subseteq FileType, NEW start \in Nat
    PROVE  /\ FreeStamp(start) \in Nat /\ FreeStamp(start) >= start
           /\ \A f \in files : f.stamp # FreeStamp(start)
<1> DEFINE Tried == start .. start + Bumps - 1
           Taken(t) == \E f \in files : f.stamp = t
           Unused == {t \in Tried : ~Taken(t)}
           Good(t) == (\A f \in files : f.stamp # t) /\ \A u \in start .. t - 1 : \E f \in files : f.stamp = u
<1>1. IsFiniteSet(Tried) /\ Cardinality(Tried) = Bumps
  BY FS_Interval, Constants
<1>2. Unused # {}
  <2> SUFFICES ASSUME Unused = {} PROVE FALSE
    OBVIOUS
  <2> DEFINE F == [t \in Tried |-> CHOOSE f \in files : f.stamp = t]
  <2>1. \A t \in Tried : F[t] \in files /\ F[t].stamp = t
    OBVIOUS
  <2>2. F \in [Tried -> files]
    BY <2>1
  <2> HIDE DEF F
  <2>3. \E x, y \in Tried : x # y /\ F[x] = F[y]
    <3> HIDE DEF Tried
    <3>1. Cardinality(files) < Cardinality(Tried)
      BY <1>1
    <3> QED BY <1>1, <2>2, <3>1, FS_PigeonHole
  <2> QED BY <2>1, <2>3
<1>3. PICK t \in Unused : \A u \in Unused : t <= u
  <2>1. Unused \in SUBSET Nat
    BY Constants
  <2> QED BY <1>2, <2>1, LeastNatural
<1>4. t \in Tried /\ Good(t)
  <2>1. \A u \in start .. t - 1 : u \in Tried /\ ~(t <= u)
    BY <1>3, Constants
  <2> QED BY <1>3, <2>1
<1>5. FreeStamp(start) \in Tried /\ Good(FreeStamp(start))
  BY <1>4 DEF FreeStamp
<1> QED BY <1>5, Constants

(* ---------------------------- what an open does -------------------------- *)

\* A listing is some of the directory: all of it, or as much as it can hold.
LEMMA ListingParts ==
    ASSUME NEW fs, IsFiniteSet(fs), NEW listed \in Listings(fs)
    PROVE  /\ listed \subseteq fs /\ IsFiniteSet(listed)
           /\ listed = fs \/ Cardinality(listed) = DirMax
<1>1. listed \subseteq fs /\ (listed = fs \/ Cardinality(listed) = DirMax)
  BY DEF Listings
<1> QED BY <1>1, FS_Subset

\* What pruning leaves of fs: the name just opened, and as many names later than
\* each deleted one as the limit says.
LEMMA PruneSpares ==
    ASSUME NEW fs, IsFiniteSet(fs), fs \subseteq FileType, NEW keep \in fs,
           maxFiles \in Nat, Prune(fs, keep)
    PROVE  /\ files' \subseteq fs /\ keep \in files'
           /\ \A f \in fs \ files' : Cardinality(Later(f, files')) >= maxFiles
<1>1. CASE files' = fs
  BY <1>1
<1>2. ASSUME NEW listed \in Listings(fs), files' = fs \ Victims(listed, keep)
      PROVE  /\ files' \subseteq fs /\ keep \in files'
             /\ \A f \in fs \ files' : Cardinality(Later(f, files')) >= maxFiles
  <2>1. listed \subseteq fs /\ IsFiniteSet(listed) /\ listed \subseteq FileType
    BY ListingParts
  <2>2. files' \subseteq fs /\ keep \in files'
    BY <1>2 DEF Victims
  <2>3. ASSUME NEW f \in fs \ files' PROVE Cardinality(Later(f, files')) >= maxFiles
    <3> DEFINE Stay == {g \in Later(f, listed) : Cardinality(Later(g, listed)) < maxFiles}
    <3>1. f \in FileType /\ Cardinality(Later(f, listed)) >= maxFiles
      BY <1>2, <2>3 DEF Victims
    <3>2. Cardinality(Stay) >= maxFiles
      BY <2>1, <3>1, EnoughStay
    <3>3. Stay \in SUBSET Later(f, files')
      <4> SUFFICES ASSUME NEW g \in Stay PROVE g \in Later(f, files')
        OBVIOUS
      <4>1. g \in listed /\ g.stamp > f.stamp /\ Cardinality(Later(g, listed)) < maxFiles
        BY DEF Later
      <4>2. Cardinality(Later(g, listed)) \in Nat
        BY <2>1, LaterFinite
      <4>3. g \in files'
        BY <1>2, <2>1, <4>1, <4>2 DEF Victims
      <4> QED BY <4>1, <4>3 DEF Later
    <3>4. IsFiniteSet(Later(f, files')) /\ Cardinality(Later(f, files')) \in Nat
      BY <2>2, FS_Subset, LaterFinite
    <3>5. Cardinality(Stay) <= Cardinality(Later(f, files')) /\ Cardinality(Stay) \in Nat
      <4> HIDE DEF Stay
      <4> QED BY <3>3, <3>4, FS_Subset, FS_CardinalityType
    <3> QED BY <3>2, <3>4, <3>5
  <2> QED BY <2>2, <2>3
<1> QED BY <1>1, <1>2 DEF Prune

\* What pruning leaves at most, when files can be deleted and no two share a
\* second.
LEMMA PruneBounds ==
    ASSUME NEW fs, IsFiniteSet(fs), fs \subseteq FileType, NEW keep \in fs,
           \A f, g \in fs : f.stamp = g.stamp => f = g,
           maxFiles \in Nat \ {0}, unlinks, Prune(fs, keep)
    PROVE  \/ Cardinality(files') <= maxFiles + 1
           \/ Cardinality(files') <= Cardinality(fs) + 1 + maxFiles - DirMax
<1>1. PICK listed \in Listings(fs) : files' = fs \ Victims(listed, keep)
  BY DEF Prune
<1> DEFINE Stay == {g \in listed : Cardinality(Later(g, listed)) < maxFiles}
<1>2. /\ listed \subseteq fs /\ IsFiniteSet(listed) /\ listed \subseteq FileType
      /\ listed = fs \/ Cardinality(listed) = DirMax
  BY ListingParts
<1>3. Cardinality(Stay) <= maxFiles
  BY <1>2, FewStay
<1>4. IsFiniteSet(Stay) /\ Cardinality(Stay) \in Nat
  BY <1>2, FS_Subset, FS_CardinalityType
<1>5. \A g \in listed : Cardinality(Later(g, listed)) \in Nat
  BY <1>2, LaterFinite
<1>6. files' \subseteq (fs \ listed) \cup (Stay \cup {keep})
  BY <1>1, <1>5 DEF Victims
<1> HIDE DEF Stay
<1>7. /\ IsFiniteSet(Stay \cup {keep}) /\ Cardinality(Stay \cup {keep}) \in Nat
      /\ Cardinality(Stay \cup {keep}) <= maxFiles + 1
  <2>1. /\ IsFiniteSet(Stay \cup {keep})
        /\ Cardinality(Stay \cup {keep}) = IF keep \in Stay THEN Cardinality(Stay) ELSE Cardinality(Stay) + 1
    BY <1>4, FS_AddElement
  <2> QED BY <1>3, <1>4, <2>1
<1>8. CASE listed = fs
  <2>1. files' \in SUBSET (Stay \cup {keep})
    BY <1>6, <1>8
  <2>2. Cardinality(files') <= Cardinality(Stay \cup {keep}) /\ Cardinality(files') \in Nat
    BY <1>7, <2>1, FS_Subset, FS_CardinalityType
  <2> QED BY <1>7, <2>2
<1>9. CASE Cardinality(listed) = DirMax
  <2>1. listed = fs \cap listed
    BY <1>2
  <2>2. IsFiniteSet(fs \ listed) /\ Cardinality(fs \ listed) = Cardinality(fs) - DirMax
    BY <1>9, <2>1, FS_Difference
  <2>3. Cardinality(fs) \in Nat /\ Cardinality(fs \ listed) \in Nat
    BY <2>2, FS_CardinalityType
  <2> DEFINE Rest == fs \ listed
             Kept == Stay \cup {keep}
  <2>4. /\ IsFiniteSet(Rest \cup Kept) /\ Cardinality(Rest \cup Kept) \in Nat
        /\ Cardinality(Rest \cup Kept) <= Cardinality(Rest) + Cardinality(Kept)
    <3> HIDE DEF Rest, Kept
    <3>1. IsFiniteSet(Rest) /\ IsFiniteSet(Kept)
      BY <1>7, <2>2 DEF Rest, Kept
    <3>2. Cardinality(Rest \cap Kept) \in Nat /\ Cardinality(Rest) \in Nat /\ Cardinality(Kept) \in Nat
      BY <3>1, FS_Intersection, FS_CardinalityType
    <3>3. /\ IsFiniteSet(Rest \cup Kept)
          /\ Cardinality(Rest \cup Kept) =
                Cardinality(Rest) + Cardinality(Kept) - Cardinality(Rest \cap Kept)
      BY <3>1, FS_Union
    <3>4. Cardinality(Rest \cup Kept) \in Nat
      BY <3>3, FS_CardinalityType
    <3> QED BY <3>2, <3>3, <3>4
  <2>5. files' \in SUBSET (Rest \cup Kept)
    BY <1>6
  <2>6. Cardinality(files') <= Cardinality(Rest \cup Kept) /\ Cardinality(files') \in Nat
    <3> HIDE DEF Rest, Kept
    <3> QED BY <2>4, <2>5, FS_Subset, FS_CardinalityType
  <2> QED BY <1>7, <2>2, <2>3, <2>4, <2>6, Constants
<1> QED BY <1>2, <1>8, <1>9

(* ------------------------------- invariants ------------------------------ *)

\* The types, with those of the sequences.
TypeInv ==
    /\ TypeOK
    /\ ring \in Seq(Nat) /\ batch \in Seq(Nat) /\ log \in Seq([rec : Nat, stamp : Nat])
    /\ born \in 0 .. MaxBorn

\* The directory: finite, no two files of one second, and the open one in it.
DirInv ==
    /\ IsFiniteSet(files) /\ Cardinality(files) <= born
    /\ \A f, g \in files : f.stamp = g.stamp => f = g
    /\ open => cur \in files

\* What the thread's place says of its batch, of stop and of a failure.
PlaceInv ==
    /\ Writing <=> batch # <<>>
    /\ pc \in {"drain", "drainwrite"} => stop
    /\ pc = "failed" => failed
    /\ failed => pc \in {"failed", "done"}
    /\ pc = "open" => cur = None

\* The second a new file is named for is later than the last one's, and free.
LEMMA FreeStampNew ==
    ASSUME TypeInv, DirInv
    PROVE  /\ FreeStamp(StartStamp) \in Nat /\ FreeStamp(StartStamp) > lastStamp
           /\ \A f \in files : f.stamp # FreeStamp(StartStamp)
<1>1. /\ clock \in Nat /\ lastStamp \in Nat /\ born \in Nat /\ born <= MaxBorn
      /\ files \subseteq FileType
  BY Constants DEF TypeInv, TypeOK
<1>2. StartStamp \in Nat /\ StartStamp > lastStamp
  BY <1>1 DEF StartStamp
<1>3. Cardinality(files) < Bumps
  BY <1>1, Constants, FS_CardinalityType DEF DirInv
<1>4. /\ FreeStamp(StartStamp) \in Nat /\ FreeStamp(StartStamp) >= StartStamp
      /\ \A f \in files : f.stamp # FreeStamp(StartStamp)
  <2>1. IsFiniteSet(files)
    BY DEF DirInv
  <2> QED BY <1>1, <1>2, <1>3, <2>1, FreeName
<1> QED BY <1>1, <1>2, <1>4

\* A new file's own second: it is pruned among the files there were and itself.
LEMMA OpenFilePrunes ==
    ASSUME TypeInv, DirInv, NEW n \in Nat, OpenFile(n)
    PROVE  /\ born' = born + 1 /\ born' \in 0 .. MaxBorn
           /\ cur' \in FileType /\ cur'.stamp = FreeStamp(StartStamp)
           /\ lastStamp' = FreeStamp(StartStamp)
           /\ open' = TRUE /\ bytes' = n /\ UNCHANGED <<maxFiles, unlinks>>
           /\ Prune(files \cup {cur'}, cur')
<1> DEFINE t == FreeStamp(StartStamp)
           f == [stamp |-> t, born |-> born + 1]
<1>1. t \in Nat /\ \A g \in files : g.stamp # t
  BY FreeStampNew
<1>2. {g \in files : g.stamp # t} \cup {f} = files \cup {f}
  BY <1>1
<1>3. /\ born < MaxBorn /\ born' = born + 1 /\ cur' = f /\ lastStamp' = t
      /\ open' = TRUE /\ bytes' = n /\ UNCHANGED <<maxFiles, unlinks>>
      /\ Prune({g \in files : g.stamp # t} \cup {f}, f)
  BY DEF OpenFile
<1>4. born \in Nat /\ born + 1 \in 0 .. MaxBorn
  BY <1>3, Constants DEF TypeInv
<1>5. f \in FileType
  BY <1>1, <1>4 DEF FileType
<1> HIDE DEF t, f
<1>6. Prune(files \cup {f}, f)
  BY <1>2, <1>3
<1> QED BY <1>3, <1>4, <1>5, <1>6 DEF t, f

\* The directory with a new file, before it is pruned.
LEMMA WithNewFile ==
    ASSUME TypeInv, DirInv, NEW n \in Nat, OpenFile(n)
    PROVE  LET fs == files \cup {cur'}
           IN  /\ IsFiniteSet(fs) /\ Cardinality(fs) = Cardinality(files) + 1
               /\ Cardinality(files) \in Nat
               /\ fs \subseteq FileType
               /\ \A f \in files : f.stamp # cur'.stamp
               /\ \A f, g \in fs : f.stamp = g.stamp => f = g
<1>1. cur' \in FileType /\ cur'.stamp = FreeStamp(StartStamp)
  BY OpenFilePrunes
<1>2. \A f \in files : f.stamp # cur'.stamp
  BY <1>1, FreeStampNew
<1>3. IsFiniteSet(files) /\ files \subseteq FileType
  BY DEF TypeInv, TypeOK, DirInv
<1>4. cur' \notin files
  BY <1>2
<1>5. /\ IsFiniteSet(files \cup {cur'})
      /\ Cardinality(files \cup {cur'}) = Cardinality(files) + 1
      /\ Cardinality(files) \in Nat
  BY <1>3, <1>4, FS_AddElement, FS_CardinalityType
<1>6. \A f, g \in files \cup {cur'} : f.stamp = g.stamp => f = g
  BY <1>2 DEF DirInv
<1> QED BY <1>1, <1>2, <1>3, <1>5, <1>6

\* What opening a file does to the directory.
LEMMA OpenFileDoes ==
    ASSUME TypeInv, DirInv, NEW n \in Nat, OpenFile(n)
    PROVE  /\ files' \subseteq files \cup {cur'} /\ cur' \in files'
           /\ \A f \in files : f.stamp # cur'.stamp
           /\ \A f \in files \ files' : Cardinality(Later(f, files')) >= maxFiles
           /\ (maxFiles > 0 /\ unlinks) =>
                \/ Cardinality(files') <= maxFiles + 1
                \/ Cardinality(files') <= Cardinality(files) + 2 + maxFiles - DirMax
           /\ IsFiniteSet(files') /\ Cardinality(files') <= born'
           /\ files' \subseteq FileType
           /\ \A f, g \in files' : f.stamp = g.stamp => f = g
           /\ lastStamp' \in Nat /\ lastStamp' > lastStamp /\ cur'.stamp = lastStamp'
<1> DEFINE fs == files \cup {cur'}
<1>1. maxFiles \in Nat
  BY Constants DEF TypeInv, TypeOK
<1>2. Prune(fs, cur') /\ cur' \in fs /\ born' = born + 1
  BY OpenFilePrunes
<1>3. /\ IsFiniteSet(fs) /\ Cardinality(fs) = Cardinality(files) + 1
      /\ Cardinality(files) \in Nat /\ fs \subseteq FileType
      /\ \A f \in files : f.stamp # cur'.stamp
      /\ \A f, g \in fs : f.stamp = g.stamp => f = g
  BY WithNewFile
<1>4. lastStamp' \in Nat /\ lastStamp' > lastStamp /\ cur'.stamp = lastStamp'
  BY OpenFilePrunes, FreeStampNew
<1> HIDE DEF fs
<1>5. /\ files' \subseteq fs /\ cur' \in files'
      /\ \A f \in fs \ files' : Cardinality(Later(f, files')) >= maxFiles
  BY <1>1, <1>2, <1>3, PruneSpares
<1>6. (maxFiles > 0 /\ unlinks) =>
         \/ Cardinality(files') <= maxFiles + 1
         \/ Cardinality(files') <= Cardinality(files) + 2 + maxFiles - DirMax
  <2> SUFFICES ASSUME maxFiles > 0, unlinks
               PROVE  \/ Cardinality(files') <= maxFiles + 1
                      \/ Cardinality(files') <= Cardinality(files) + 2 + maxFiles - DirMax
    OBVIOUS
  <2>0. maxFiles \in Nat \ {0}
    BY <1>1
  <2>1. \/ Cardinality(files') <= maxFiles + 1
        \/ Cardinality(files') <= Cardinality(fs) + 1 + maxFiles - DirMax
    BY <1>2, <1>3, <2>0, PruneBounds
  <2> QED BY <1>1, <1>3, <2>1, Constants
<1>7. IsFiniteSet(files') /\ Cardinality(files') <= Cardinality(fs) /\ Cardinality(files') \in Nat
  BY <1>3, <1>5, FS_Subset, FS_CardinalityType
<1>8. Cardinality(files') <= born'
  BY <1>2, <1>3, <1>7 DEF DirInv, TypeInv
<1> QED BY <1>3, <1>4, <1>5, <1>6, <1>7, <1>8 DEF fs

\* The types, taken apart.
LEMMA TypeParts ==
    ASSUME TypeInv
    PROVE  /\ offered \in Nat /\ offered <= MaxOffered
           /\ dropped \in Nat /\ dropped <= offered /\ atStop \in Nat /\ atStop <= offered
           /\ ring \in Seq(Nat) /\ batch \in Seq(Nat) /\ log \in Seq([rec : Nat, stamp : Nat])
           /\ Len(ring) \in Nat /\ Len(batch) \in Nat /\ Len(log) \in Nat
           /\ Len(ring) <= RingLen /\ Len(batch) <= BatchMax
           /\ bytes \in Nat /\ lastStamp \in Nat /\ maxFiles \in Nat /\ clock \in Nat
           /\ born \in Nat /\ born <= MaxBorn /\ first \in Nat /\ first <= born
           /\ cur \in FileType /\ cur.stamp \in Nat /\ files \subseteq FileType
  BY Constants DEF TypeInv, TypeOK, FileType

\* A pop moves the oldest n records into the batch.
LEMMA TakeDoes ==
    ASSUME ring \in Seq(Nat), NEW n \in 0 .. Len(ring), Take(n)
    PROVE  /\ ring' \in Seq(Nat) /\ batch' \in Seq(Nat)
           /\ Len(batch') = n /\ Len(ring') = Len(ring) - n
           /\ \A i \in 1 .. n : batch'[i] = ring[i]
           /\ \A i \in 1 .. Len(ring) - n : ring'[i] = ring[n + i]
  BY DEF Take

\* How many records a pop takes.
PopCount == IF Len(ring) < BatchMax THEN Len(ring) ELSE BatchMax

LEMMA PopTakes ==
    ASSUME TypeInv, Pop
    PROVE  /\ PopCount \in 0 .. Len(ring) /\ PopCount <= BatchMax
           /\ PopCount = 0 <=> Len(ring) = 0
           /\ Take(PopCount)
  BY TypeParts, Constants, SMTT(20) DEF Pop, PopCount

InductiveInv == TypeInv /\ DirInv /\ PlaceInv

LEMMA InitInv == Init => InductiveInv
<1> SUFFICES ASSUME Init PROVE InductiveInv
  OBVIOUS
<1>1. None \in FileType
  BY Constants DEF None, FileType
<1>2. TypeInv
  <2>1. <<>> \in Seq(Nat) /\ <<>> \in Seq([rec : Nat, stamp : Nat]) /\ Len(<<>>) = 0
    OBVIOUS
  <2>2. 0 \in 0 .. MaxOffered /\ 0 \in 0 .. 0 /\ 0 \in 0 .. MaxBorn /\ 0 <= RingLen /\ 0 <= BatchMax
    BY Constants
  <2>3. {failed, stop, open, unlinks} \subseteq BOOLEAN
    BY DEF Init
  <2>4. ring \in Seq(Nat) /\ batch \in Seq(Nat) /\ log \in Seq([rec : Nat, stamp : Nat])
        /\ Len(ring) = 0 /\ Len(batch) = 0
    BY <2>1 DEF Init
  <2> QED BY <1>1, <2>2, <2>3, <2>4 DEF Init, TypeInv, TypeOK
<1>3. DirInv
  BY FS_EmptySet, Constants DEF Init, DirInv
<1>4. PlaceInv
  BY DEF Init, PlaceInv, Writing
<1> QED BY <1>2, <1>3, <1>4 DEF InductiveInv

\* What a file opened, not opened or left as it is keeps of the rotator's part.
RotatorInv ==
    /\ open \in BOOLEAN /\ unlinks \in BOOLEAN
    /\ cur \in FileType /\ files \subseteq FileType /\ bytes \in Nat /\ lastStamp \in Nat
    /\ maxFiles \in Limits /\ born \in 0 .. MaxBorn
    /\ DirInv

LEMMA OpenFileInv ==
    ASSUME TypeInv, DirInv, NEW n \in Nat, OpenFile(n)
    PROVE  RotatorInv' /\ born' >= born
<1>1. /\ born' = born + 1 /\ born' \in 0 .. MaxBorn /\ cur' \in FileType
      /\ open' = TRUE /\ bytes' = n /\ UNCHANGED <<maxFiles, unlinks>>
  BY OpenFilePrunes
<1>2. /\ cur' \in files' /\ IsFiniteSet(files') /\ Cardinality(files') <= born'
      /\ files' \subseteq FileType
      /\ \A f, g \in files' : f.stamp = g.stamp => f = g
      /\ lastStamp' \in Nat
  BY OpenFileDoes
<1>3. DirInv'
  BY <1>2 DEF DirInv
<1>4. born \in Nat /\ unlinks \in BOOLEAN /\ maxFiles \in Limits
  BY TypeParts DEF TypeInv, TypeOK
<1> QED BY <1>1, <1>2, <1>3, <1>4 DEF RotatorInv

LEMMA OpenFailsInv ==
    ASSUME TypeInv, DirInv, OpenFails
    PROVE  RotatorInv' /\ born' = born
<1>1. lastStamp' \in Nat
  BY FreeStampNew DEF OpenFails
<1>2. DirInv'
  BY DEF DirInv, OpenFails
<1> QED BY <1>1, <1>2 DEF RotatorInv, OpenFails, TypeInv, TypeOK

LEMMA RotatorStays ==
    ASSUME TypeInv, DirInv, UNCHANGED rotator
    PROVE  RotatorInv' /\ born' = born
<1>1. UNCHANGED <<open, cur, bytes, lastStamp, maxFiles, unlinks, files, born>>
  BY DEF rotator
<1> QED BY <1>1 DEF RotatorInv, DirInv, TypeInv, TypeOK

\* The types of what is left when the rotator's are known.
RestInv ==
    /\ offered \in 0 .. MaxOffered /\ dropped \in 0 .. offered /\ atStop \in 0 .. offered
    /\ ring \in Seq(Nat) /\ batch \in Seq(Nat) /\ log \in Seq([rec : Nat, stamp : Nat])
    /\ Len(ring) <= RingLen /\ Len(batch) <= BatchMax
    /\ pc \in {"open", "loop", "pop", "write", "drain", "drainwrite", "failed", "done"}
    /\ failed \in BOOLEAN /\ stop \in BOOLEAN
    /\ clock \in Clocks /\ first \in 0 .. born

LEMMA TypesAreParts == TypeInv /\ DirInv <=> RotatorInv /\ RestInv
  BY DEF TypeInv, TypeOK, RotatorInv, RestInv

LEMMA NextInv == InductiveInv /\ [Next]_vars => InductiveInv'
<1> SUFFICES ASSUME InductiveInv, [Next]_vars PROVE InductiveInv'
  OBVIOUS
<1> USE DEF InductiveInv
<1>0. RotatorInv /\ RestInv
  BY TypesAreParts
<1>1. SUFFICES RotatorInv' /\ RestInv' /\ PlaceInv'
  <2>1. RotatorInv' /\ RestInv' <=> TypeInv' /\ DirInv'
    BY DEF TypeInv, TypeOK, RotatorInv, RestInv
  <2> QED BY <2>1
<1>2. CASE Offer
  <2>1. /\ offered < MaxOffered /\ offered' = offered + 1
        /\ \/ Len(ring) = RingLen /\ dropped' = dropped + 1 /\ ring' = ring
           \/ Len(ring) # RingLen /\ dropped' = dropped /\ ring' = Append(ring, offered + 1)
        /\ UNCHANGED <<pc, batch, failed, stop, open, cur, bytes, lastStamp, maxFiles, unlinks,
                       files, born, clock, log, first, atStop>>
    BY <1>2 DEF Offer, thread, rotator, history
  <2>2. RotatorInv'
    BY <2>1, RotatorStays DEF rotator
  <2>3. RestInv'
    <3>1. offered' \in 0 .. MaxOffered /\ atStop' \in 0 .. offered' /\ dropped' \in 0 .. offered'
      <4>1. /\ offered < MaxOffered /\ offered' = offered + 1 /\ atStop' = atStop
            /\ dropped' = dropped \/ dropped' = dropped + 1
        BY <2>1
      <4>2. /\ offered \in Nat /\ dropped \in Nat /\ dropped <= offered /\ atStop \in Nat
            /\ atStop <= offered /\ MaxOffered \in Nat
        BY TypeParts, Constants
      <4> QED BY <4>1, <4>2
    <3>2. ring' \in Seq(Nat) /\ Len(ring') <= RingLen
      <4>1. offered + 1 \in Nat /\ ring \in Seq(Nat) /\ Len(ring) <= RingLen /\ RingLen \in Nat
        BY TypeParts, Constants
      <4>2. CASE ring' = ring
        BY <4>1, <4>2
      <4>3. CASE Len(ring) # RingLen /\ ring' = Append(ring, offered + 1)
        <5>1. ring' \in Seq(Nat) /\ Len(ring') = Len(ring) + 1
          BY <4>1, <4>3
        <5>2. Len(ring) \in Nat
          BY TypeParts
        <5> QED BY <4>1, <4>3, <5>1, <5>2
      <4> QED BY <2>1, <4>2, <4>3
    <3> QED BY <1>0, <2>1, <3>1, <3>2 DEF RestInv
  <2>4. PlaceInv'
    BY <2>1 DEF PlaceInv, Writing
  <2> QED BY <2>2, <2>3, <2>4
<1>3. CASE Start
  <2>1. /\ \/ OpenFile(0) /\ pc' = "loop"
           \/ OpenFails /\ pc' = "done"
        /\ pc = "open"
        /\ UNCHANGED <<offered, ring, dropped, batch, failed, stop, clock, log, first, atStop>>
    BY <1>3 DEF Start, tap, history
  <2>2. RotatorInv' /\ born' >= born
    BY <2>1, OpenFileInv, OpenFailsInv, TypeParts
  <2>3. RestInv'
    BY <1>0, <2>1, <2>2 DEF RestInv, RotatorInv
  <2>4. PlaceInv'
    BY <2>1 DEF PlaceInv, Writing
  <2> QED BY <2>2, <2>3, <2>4
<1>4. CASE Loop
  <2>1. /\ pc = "loop" /\ pc' = IF stop THEN "drain" ELSE "pop"
        /\ UNCHANGED rotator
        /\ UNCHANGED <<offered, ring, dropped, batch, failed, stop, clock, log, first, atStop>>
    BY <1>4 DEF Loop, tap, history
  <2>2. RotatorInv' /\ born' = born
    BY <2>1, RotatorStays
  <2>3. RestInv'
    BY <1>0, <2>1, <2>2 DEF RestInv
  <2>4. PlaceInv'
    BY <2>1 DEF PlaceInv, Writing
  <2> QED BY <2>2, <2>3, <2>4
<1>5. CASE Pop
  <2>1. /\ PopCount \in 0 .. Len(ring) /\ PopCount <= BatchMax
        /\ Take(PopCount)
    BY <1>5, PopTakes
  <2>2. /\ ring' \in Seq(Nat) /\ batch' \in Seq(Nat)
        /\ Len(batch') = PopCount /\ Len(ring') = Len(ring) - PopCount
    BY <2>1, TypeParts, TakeDoes
  <2>3. /\ pc \in {"pop", "drain"}
        /\ pc' = IF PopCount > 0 THEN IF pc = "pop" THEN "write" ELSE "drainwrite"
                 ELSE IF pc = "pop" THEN "loop" ELSE "done"
        /\ open' = (open /\ pc' # "done")
        /\ UNCHANGED <<offered, dropped, failed, stop, cur, bytes, lastStamp, maxFiles,
                       unlinks, files, born, clock, log, first, atStop>>
    BY <1>5 DEF Pop, PopCount, history
  <2>4. open' \in BOOLEAN /\ (open' => open)
    BY <1>0, <2>3, Zenon DEF RotatorInv
  <2>5. RotatorInv'
    BY <1>0, <2>3, <2>4 DEF RotatorInv, DirInv
  <2>6. RestInv'
    BY <1>0, <2>1, <2>2, <2>3, TypeParts, Constants DEF RestInv
  <2>7. PlaceInv'
    <3>1. batch' # <<>> <=> PopCount > 0
      BY <2>1, <2>2, TypeParts
    <3> QED BY <2>3, <3>1 DEF PlaceInv, Writing
  <2> QED BY <2>5, <2>6, <2>7
<1>6. CASE Write
  <2>1. /\ Writing
        /\ IF RotationDue THEN OpenFile(1)
           ELSE bytes' = bytes + 1
                /\ UNCHANGED <<open, cur, lastStamp, maxFiles, unlinks, files, born>>
        /\ log' = Append(log, [rec |-> Head(batch), stamp |-> cur'.stamp])
        /\ batch' = Tail(batch)
        /\ pc' = IF Len(batch) > 1 THEN pc ELSE IF pc = "write" THEN "loop" ELSE "drain"
        /\ UNCHANGED <<offered, ring, dropped, failed, stop, clock, first, atStop>>
    BY <1>6 DEF Write, tap, history
  <2>2. RotatorInv' /\ born' >= born
    <3>1. CASE RotationDue
      BY <2>1, <3>1, OpenFileInv
    <3>2. CASE ~RotationDue
      BY <1>0, <2>1, <3>2, TypeParts DEF RotatorInv, DirInv
    <3> QED BY <3>1, <3>2
  <2>3. batch # <<>>
    BY <2>1 DEF PlaceInv
  <2>4. batch' \in Seq(Nat) /\ Len(batch') = Len(batch) - 1 /\ Head(batch) \in Nat /\ Len(batch) > 0
    BY <2>1, <2>3, TypeParts, SMTT(20)
  <2>5. log' \in Seq([rec : Nat, stamp : Nat])
    <3>1. cur'.stamp \in Nat
      BY <2>2 DEF RotatorInv, FileType
    <3> QED BY <2>1, <2>4, <3>1, TypeParts
  <2>6. RestInv'
    BY <1>0, <2>1, <2>2, <2>4, <2>5, TypeParts, Constants, SMTT(20) DEF RestInv, RotatorInv, Writing
  <2>7. PlaceInv'
    <3>1. batch' # <<>> <=> Len(batch) > 1
      BY <2>4, TypeParts, SMTT(20)
    <3> QED BY <2>1, <3>1 DEF PlaceInv, Writing
  <2> QED BY <2>2, <2>6, <2>7
<1>7. CASE WriteFails
  <2>1. /\ Writing
        /\ \/ RotationDue /\ (OpenFails \/ OpenFile(0))
           \/ ~RotationDue /\ UNCHANGED rotator
        /\ failed' = TRUE /\ batch' = <<>> /\ pc' = "failed"
        /\ UNCHANGED <<offered, ring, dropped, stop, clock, log, first, atStop>>
    BY <1>7 DEF WriteFails, tap, history
  <2>2. RotatorInv' /\ born' >= born
    BY <2>1, OpenFileInv, OpenFailsInv, RotatorStays, TypeParts
  <2>3. RestInv'
    BY <1>0, <2>1, <2>2, TypeParts, Constants DEF RestInv, RotatorInv
  <2>4. PlaceInv'
    BY <2>1 DEF PlaceInv, Writing
  <2> QED BY <2>2, <2>3, <2>4
<1>8. CASE Close
  <2>1. /\ pc = "failed" /\ pc' = "done" /\ open' = FALSE
        /\ UNCHANGED <<offered, ring, dropped, batch, failed, stop, cur, bytes, lastStamp,
                       maxFiles, unlinks, files, born, clock, log, first, atStop>>
    BY <1>8 DEF Close, tap, history
  <2>2. RotatorInv'
    BY <1>0, <2>1 DEF RotatorInv, DirInv
  <2>3. RestInv'
    BY <1>0, <2>1 DEF RestInv
  <2>4. PlaceInv'
    BY <2>1 DEF PlaceInv, Writing
  <2> QED BY <2>2, <2>3, <2>4
<1>9. CASE Stop
  <2>1. /\ ~stop /\ stop' = TRUE /\ atStop' = offered /\ UNCHANGED rotator
        /\ UNCHANGED <<offered, ring, dropped, pc, batch, failed, clock, log, first>>
    BY <1>9 DEF Stop, tap, thread
  <2>2. RotatorInv' /\ born' = born
    BY <2>1, RotatorStays
  <2>3. RestInv'
    BY <1>0, <2>1, <2>2, TypeParts DEF RestInv
  <2>4. PlaceInv'
    BY <2>1 DEF PlaceInv, Writing, rotator
  <2> QED BY <2>2, <2>3, <2>4
<1>10. ASSUME NEW c \in Clocks, ClockSet(c) PROVE RotatorInv' /\ RestInv' /\ PlaceInv'
  <2>1. /\ clock' = c /\ UNCHANGED rotator
        /\ UNCHANGED <<offered, ring, dropped, pc, batch, failed, stop, log, first, atStop>>
    BY <1>10 DEF ClockSet, tap, thread, history
  <2>2. RotatorInv' /\ born' = born
    BY <2>1, RotatorStays
  <2>3. RestInv'
    BY <1>0, <2>1, <2>2 DEF RestInv
  <2>4. PlaceInv'
    BY <2>1 DEF PlaceInv, Writing, rotator
  <2> QED BY <2>2, <2>3, <2>4
<1>11. ASSUME NEW limit \in Limits, Restart(limit) PROVE RotatorInv' /\ RestInv' /\ PlaceInv'
  <2>1. /\ pc' = "open" /\ offered' = 0 /\ ring' = <<>> /\ dropped' = 0
        /\ batch' = <<>> /\ failed' = FALSE /\ stop' = FALSE
        /\ open' = FALSE /\ cur' = None /\ bytes' = 0 /\ lastStamp' = 0
        /\ maxFiles' = limit /\ first' = born /\ log' = <<>> /\ atStop' = 0
        /\ UNCHANGED <<unlinks, files, clock, born>>
    BY <1>11 DEF Restart
  <2>2. None \in FileType
    BY Constants DEF None, FileType
  <2>3. RotatorInv'
    BY <1>0, <2>1, <2>2, Constants DEF RotatorInv, DirInv
  <2>4. RestInv'
    <3>1. <<>> \in Seq(Nat) /\ <<>> \in Seq([rec : Nat, stamp : Nat]) /\ Len(<<>>) = 0
      OBVIOUS
    <3>2. 0 \in 0 .. MaxOffered /\ 0 \in 0 .. 0 /\ 0 <= RingLen /\ 0 <= BatchMax /\ born \in 0 .. born
      BY TypeParts, Constants
    <3>3. ring' \in Seq(Nat) /\ batch' \in Seq(Nat) /\ log' \in Seq([rec : Nat, stamp : Nat])
          /\ Len(ring') = 0 /\ Len(batch') = 0
      BY <2>1, <3>1
    <3> QED BY <1>0, <2>1, <3>2, <3>3 DEF RestInv
  <2>5. PlaceInv'
    BY <2>1 DEF PlaceInv, Writing
  <2> QED BY <2>3, <2>4, <2>5
<1>12. CASE UNCHANGED vars
  <2>1. /\ UNCHANGED rotator
        /\ UNCHANGED <<offered, ring, dropped, pc, batch, failed, stop, clock, log, first, atStop>>
    BY <1>12 DEF vars, tap, thread, history
  <2>2. RotatorInv' /\ born' = born
    BY <2>1, RotatorStays
  <2>3. RestInv'
    BY <1>0, <2>1, <2>2 DEF RestInv
  <2>4. PlaceInv'
    BY <2>1 DEF PlaceInv, Writing, rotator
  <2> QED BY <2>2, <2>3, <2>4
<1> QED
  BY <1>2, <1>3, <1>4, <1>5, <1>6, <1>7, <1>8, <1>9, <1>10, <1>11, <1>12 DEF Next, Thread

\* The types, and a ring within its length, on every step.
THEOREM CaptureTypes == Spec => []TypeOK
<1>1. InductiveInv => TypeOK
  BY DEF InductiveInv, TypeInv
<1> QED BY <1>1, InitInv, NextInv, PTL DEF Spec

(* ------------------------------ the directory ---------------------------- *)

\* Only an open changes the directory.
LEMMA FilesStep ==
    ASSUME [Next]_vars
    PROVE  \/ UNCHANGED <<files, born>>
           \/ \E n \in Nat : OpenFile(n)
<1>1. CASE Offer \/ Loop \/ Stop \/ UNCHANGED vars
  BY <1>1 DEF Offer, Loop, Stop, vars, rotator
<1>2. CASE Start
  BY <1>2 DEF Start, OpenFails
<1>3. CASE Pop \/ Close
  BY <1>3 DEF Pop, Close
<1>4. CASE Write
  BY <1>4 DEF Write
<1>5. CASE WriteFails
  BY <1>5 DEF WriteFails, OpenFails, rotator
<1>6. ASSUME NEW c \in Clocks, ClockSet(c) PROVE UNCHANGED <<files, born>>
  BY <1>6 DEF ClockSet, rotator
<1>7. ASSUME NEW limit \in Limits, Restart(limit) PROVE UNCHANGED <<files, born>>
  BY <1>7 DEF Restart
<1> QED BY <1>1, <1>2, <1>3, <1>4, <1>5, <1>6, <1>7 DEF Next, Thread

\* Pruning spares the later names and the open file, leaves no more than the
\* limit and what a listing cannot hold, and no open replaces a file.
THEOREM FilesSafeHolds == Spec => FilesSafe
<1>1. InductiveInv /\ InductiveInv' /\ [Next]_vars =>
         /\ [/\ \A f \in files : (\A g \in files' : g.stamp # f.stamp) =>
                    Cardinality(Later(f, files')) >= maxFiles
             /\ open' => cur' \in files']_vars
         /\ [(born' # born /\ maxFiles > 0 /\ unlinks) =>
                \/ Cardinality(files') <= maxFiles + 1
                \/ Cardinality(files') <= Cardinality(files) + 2 + maxFiles - DirMax]_vars
         /\ [\A f \in files, g \in files' : f.stamp = g.stamp => f = g]_vars
  <2> SUFFICES ASSUME InductiveInv, InductiveInv', [Next]_vars
               PROVE /\ \A f \in files : (\A g \in files' : g.stamp # f.stamp) =>
                            Cardinality(Later(f, files')) >= maxFiles
                     /\ open' => cur' \in files'
                     /\ (born' # born /\ maxFiles > 0 /\ unlinks) =>
                          \/ Cardinality(files') <= maxFiles + 1
                          \/ Cardinality(files') <= Cardinality(files) + 2 + maxFiles - DirMax
                     /\ \A f \in files, g \in files' : f.stamp = g.stamp => f = g
    OBVIOUS
  <2>1. /\ open' => cur' \in files'
        /\ \A f, g \in files : f.stamp = g.stamp => f = g
    BY DEF InductiveInv, DirInv
  <2>2. CASE UNCHANGED <<files, born>>
    BY <2>1, <2>2
  <2>3. ASSUME NEW n \in Nat, OpenFile(n)
        PROVE  /\ \A f \in files \ files' : Cardinality(Later(f, files')) >= maxFiles
               /\ (maxFiles > 0 /\ unlinks) =>
                    \/ Cardinality(files') <= maxFiles + 1
                    \/ Cardinality(files') <= Cardinality(files) + 2 + maxFiles - DirMax
               /\ files' \subseteq files \cup {cur'}
               /\ \A f \in files : f.stamp # cur'.stamp
    BY <2>3, OpenFileDoes DEF InductiveInv
  <2>4. ASSUME NEW n \in Nat, OpenFile(n)
        PROVE  /\ \A f \in files : (\A g \in files' : g.stamp # f.stamp) => f \notin files'
               /\ \A f \in files, g \in files' : f.stamp = g.stamp => f = g
    BY <2>1, <2>3, <2>4
  <2> QED BY <2>1, <2>2, <2>3, <2>4, FilesStep
<1>2. Spec => [][/\ \A f \in files : (\A g \in files' : g.stamp # f.stamp) =>
                        Cardinality(Later(f, files')) >= maxFiles
                 /\ open' => cur' \in files']_vars
  BY <1>1, InitInv, NextInv, PTL DEF Spec
<1>3. Spec => [][(born' # born /\ maxFiles > 0 /\ unlinks) =>
                    \/ Cardinality(files') <= maxFiles + 1
                    \/ Cardinality(files') <= Cardinality(files) + 2 + maxFiles - DirMax]_vars
  BY <1>1, InitInv, NextInv, PTL DEF Spec
<1>4. Spec => [][\A f \in files, g \in files' : f.stamp = g.stamp => f = g]_vars
  BY <1>1, InitInv, NextInv, PTL DEF Spec
<1> QED
  BY <1>2, <1>3, <1>4
  DEF FilesSafe, OldestNamesGoFirst, FilesBounded, NothingOverwritten

(* ------------------------------- the records ----------------------------- *)

\* What a drained writer leaves queued was offered after stop.
DrainInv ==
    (pc = "done" /\ ~failed /\ cur # None) =>
        stop /\ \A i \in 1 .. Len(ring) : ring[i] > atStop

LossInv == RecordsAccounted /\ DrainInv

LEMMA LossInit == Init => LossInv
  BY DEF Init, LossInv, RecordsAccounted, DrainInv

LEMMA LossNext == InductiveInv /\ LossInv /\ [Next]_vars => LossInv'
<1> SUFFICES ASSUME InductiveInv, LossInv, [Next]_vars PROVE LossInv'
  OBVIOUS
<1>1. TypeInv /\ PlaceInv /\ RecordsAccounted /\ DrainInv
  BY DEF InductiveInv, LossInv
<1>2. CASE Offer
  <2>1. /\ offered' = offered + 1
        /\ \/ dropped' = dropped + 1 /\ ring' = ring
           \/ dropped' = dropped /\ ring' = Append(ring, offered + 1)
        /\ UNCHANGED <<pc, batch, failed, stop, cur, log, atStop>>
    BY <1>2 DEF Offer, thread, rotator, history
  <2>2. /\ offered + 1 \in Nat /\ offered + 1 > atStop
        /\ offered \in Nat /\ dropped \in Nat /\ Len(ring) \in Nat /\ Len(batch) \in Nat
        /\ Len(log) \in Nat /\ ring \in Seq(Nat)
    BY <1>1, TypeParts
  <2>3. CASE dropped' = dropped + 1 /\ ring' = ring
    BY <1>1, <2>1, <2>2, <2>3 DEF LossInv, RecordsAccounted, DrainInv
  <2>4. CASE dropped' = dropped /\ ring' = Append(ring, offered + 1)
    <3>1. /\ Len(ring') = Len(ring) + 1 /\ ring'[Len(ring) + 1] = offered + 1
          /\ \A i \in 1 .. Len(ring) : ring'[i] = ring[i]
      BY <2>2, <2>4
    <3>2. \A i \in 1 .. Len(ring') : i \in 1 .. Len(ring) \/ i = Len(ring) + 1
      BY <2>2, <3>1
    <3>3. RecordsAccounted'
      <4>1. Len(batch') = Len(batch) /\ Len(log') = Len(log) /\ failed' = failed
        BY <2>1
      <4>2. offered' = offered + 1 /\ dropped' = dropped
        BY <2>1, <2>4
      <4> QED BY <1>1, <2>2, <3>1, <4>1, <4>2 DEF RecordsAccounted
    <3>4. DrainInv'
      <4>1. /\ UNCHANGED <<pc, failed, stop, cur, atStop>>
            /\ \A i \in 1 .. Len(ring') : ring'[i] = offered + 1 \/ (i \in 1 .. Len(ring) /\ ring'[i] = ring[i])
        BY <2>1, <3>1, <3>2
      <4> QED BY <1>1, <2>2, <4>1 DEF DrainInv
    <3> QED BY <3>3, <3>4 DEF LossInv
  <2> QED BY <2>1, <2>3, <2>4
<1>3. CASE Start
  <2>1. /\ pc = "open"
        /\ pc' = "loop" \/ (OpenFails /\ pc' = "done")
        /\ UNCHANGED <<offered, ring, dropped, batch, failed, log>>
    BY <1>3 DEF Start, tap
  <2>2. OpenFails => cur' = None
    BY <1>1, <2>1 DEF OpenFails, PlaceInv
  <2> QED BY <1>1, <2>1, <2>2 DEF LossInv, RecordsAccounted, DrainInv
<1>4. CASE Loop
  BY <1>1, <1>4 DEF Loop, tap, LossInv, RecordsAccounted, DrainInv
<1>5. CASE Pop
  <2>1. /\ PopCount \in 0 .. Len(ring) /\ Take(PopCount)
        /\ PopCount = 0 <=> Len(ring) = 0
    BY <1>1, <1>5, PopTakes
  <2>2. Len(batch') = PopCount /\ Len(ring') = Len(ring) - PopCount
    <3>1. ring \in Seq(Nat)
      BY <1>1, TypeParts
    <3> QED BY <2>1, <3>1, TakeDoes
  <2>3. /\ pc \in {"pop", "drain"} /\ batch = <<>>
        /\ pc' = "done" => pc = "drain" /\ ~(PopCount > 0)
        /\ UNCHANGED <<offered, dropped, failed, stop, log, atStop>>
    BY <1>1, <1>5 DEF Pop, PopCount, PlaceInv, Writing, history
  <2>4. RecordsAccounted'
    <3>1. Len(batch) = 0
      BY <2>3
    <3> QED BY <1>1, <2>1, <2>2, <2>3, <3>1, TypeParts DEF RecordsAccounted
  <2>5. DrainInv'
    <3>1. pc' = "done" => stop' /\ Len(ring') = 0
      BY <1>1, <2>1, <2>2, <2>3, TypeParts DEF PlaceInv
    <3> QED BY <3>1 DEF DrainInv
  <2> QED BY <2>4, <2>5 DEF LossInv
<1>6. CASE Write
  <2>1. /\ Writing /\ batch' = Tail(batch)
        /\ log' = Append(log, [rec |-> Head(batch), stamp |-> cur'.stamp])
        /\ pc' \in {pc, "loop", "drain"}
        /\ UNCHANGED <<offered, ring, dropped, failed>>
    BY <1>6 DEF Write, tap
  <2>2. batch # <<>> /\ batch \in Seq(Nat) /\ Len(batch) \in Nat
    BY <1>1, <2>1, TypeParts DEF PlaceInv
  <2>3. Len(batch') = Len(batch) - 1
    BY <2>1, <2>2
  <2>4. Len(log') = Len(log) + 1
    <3>1. log \in Seq([rec : Nat, stamp : Nat])
      BY <1>1, TypeParts
    <3> QED BY <2>1, <3>1
  <2>5. pc' # "done"
    BY <2>1 DEF Writing
  <2>6. RecordsAccounted'
    <3>1. /\ offered \in Nat /\ dropped \in Nat /\ Len(ring) \in Nat /\ Len(log) \in Nat
          /\ UNCHANGED <<offered, ring, dropped, failed>>
      BY <1>1, <2>1, TypeParts
    <3> QED BY <1>1, <2>2, <2>3, <2>4, <3>1 DEF RecordsAccounted
  <2> QED BY <2>5, <2>6 DEF LossInv, DrainInv
<1>7. CASE WriteFails
  BY <1>7 DEF WriteFails, LossInv, RecordsAccounted, DrainInv
<1>8. CASE Close
  BY <1>1, <1>8 DEF Close, PlaceInv, LossInv, RecordsAccounted, DrainInv
<1>9. CASE Stop
  BY <1>1, <1>9 DEF Stop, tap, thread, rotator, LossInv, RecordsAccounted, DrainInv
<1>10. ASSUME NEW c \in Clocks, ClockSet(c) PROVE LossInv'
  BY <1>1, <1>10 DEF ClockSet, tap, thread, rotator, history, LossInv, RecordsAccounted, DrainInv
<1>11. ASSUME NEW limit \in Limits, Restart(limit) PROVE LossInv'
  BY <1>11 DEF Restart, LossInv, RecordsAccounted, DrainInv
<1>12. CASE UNCHANGED vars
  BY <1>1, <1>12 DEF vars, tap, thread, rotator, history, LossInv, RecordsAccounted, DrainInv
<1> QED
  BY <1>2, <1>3, <1>4, <1>5, <1>6, <1>7, <1>8, <1>9, <1>10, <1>11, <1>12 DEF Next, Thread

\* No record is lost without being counted while nothing fails, and an unfailed
\* writer that has ended had emptied the ring after stop.
THEOREM NothingLostSilentlyHolds == Spec => []NothingLostSilently
<1>1. InductiveInv /\ LossInv => NothingLostSilently
  BY DEF InductiveInv, TypeInv, LossInv, DrainInv, NothingLostSilently, DrainedAtStop
<1> QED BY <1>1, InitInv, NextInv, LossInit, LossNext, PTL DEF Spec

(* ------------------------------- the order ------------------------------- *)

\* Records go from the ring through the batch to the file: each place is in
\* order, and what has gone further is earlier.
QueueOrder ==
    /\ \A i, j \in 1 .. Len(ring) : i < j => ring[i] < ring[j]
    /\ \A i, j \in 1 .. Len(batch) : i < j => batch[i] < batch[j]
    /\ \A i \in 1 .. Len(ring) : ring[i] <= offered
    /\ \A i \in 1 .. Len(batch) : batch[i] <= offered
    /\ \A i \in 1 .. Len(batch), j \in 1 .. Len(ring) : batch[i] < ring[j]

LogOrder ==
    /\ ReadBackInOrder
    /\ \A i \in 1 .. Len(log) : log[i].rec <= offered
    /\ \A i \in 1 .. Len(log), j \in 1 .. Len(ring) : log[i].rec < ring[j]
    /\ \A i \in 1 .. Len(log), j \in 1 .. Len(batch) : log[i].rec < batch[j]

\* No file of this run is later than the current one, nor that than the last
\* second used.
StampOrder ==
    /\ \A i \in 1 .. Len(log) : log[i].stamp <= cur.stamp
    /\ cur.stamp <= lastStamp

OrderInv == QueueOrder /\ LogOrder /\ StampOrder

LEMMA OrderInit == Init => OrderInv
  BY DEF Init, OrderInv, QueueOrder, LogOrder, StampOrder, ReadBackInOrder, None

\* What is in a ring, a batch and a log.
LEMMA Entries ==
    ASSUME TypeInv
    PROVE  /\ \A i \in 1 .. Len(ring) : ring[i] \in Nat
           /\ \A i \in 1 .. Len(batch) : batch[i] \in Nat
           /\ \A i \in 1 .. Len(log) : log[i].rec \in Nat /\ log[i].stamp \in Nat
<1>1. \A i \in 1 .. Len(ring) : ring[i] \in Nat
  BY DEF TypeInv
<1>2. \A i \in 1 .. Len(batch) : batch[i] \in Nat
  BY DEF TypeInv
<1>3. \A i \in 1 .. Len(log) : log[i] \in [rec : Nat, stamp : Nat]
  <2> DEFINE R == [rec : Nat, stamp : Nat]
  <2>1. log \in Seq(R)
    BY DEF TypeInv
  <2> HIDE DEF R
  <2>2. \A i \in 1 .. Len(log) : log[i] \in R
    BY <2>1
  <2> QED BY <2>2 DEF R
<1> QED BY <1>1, <1>2, <1>3

\* The current file is never earlier after an open than before, tried or done.
LEMMA CurOnlyLater ==
    ASSUME TypeInv, DirInv, StampOrder,
           \/ \E n \in Nat : OpenFile(n)
           \/ OpenFails
           \/ UNCHANGED <<cur, lastStamp>>
    PROVE  cur'.stamp \in Nat /\ cur.stamp <= cur'.stamp /\ cur'.stamp <= lastStamp'
<1>1. cur.stamp \in Nat /\ lastStamp \in Nat /\ cur.stamp <= lastStamp
  BY TypeParts DEF StampOrder
<1>2. ASSUME NEW n \in Nat, OpenFile(n)
      PROVE  cur'.stamp \in Nat /\ cur.stamp <= cur'.stamp /\ cur'.stamp <= lastStamp'
  <2>1. lastStamp' \in Nat /\ lastStamp' > lastStamp /\ cur'.stamp = lastStamp'
    BY <1>2, OpenFileDoes
  <2> QED BY <1>1, <2>1
<1>3. CASE OpenFails
  <2>1. lastStamp' \in Nat /\ lastStamp' > lastStamp /\ cur' = cur
    BY <1>3, FreeStampNew DEF OpenFails
  <2> QED BY <1>1, <2>1
<1>4. CASE UNCHANGED <<cur, lastStamp>>
  BY <1>1, <1>4
<1> QED BY <1>2, <1>3, <1>4

\* The order of the log does not depend on which file comes next.
LEMMA StampsStay ==
    ASSUME TypeInv, StampOrder, UNCHANGED log,
           cur'.stamp \in Nat, cur.stamp <= cur'.stamp, cur'.stamp <= lastStamp'
    PROVE  StampOrder'
<1>1. cur.stamp \in Nat
  BY TypeParts
<1>2. \A i \in 1 .. Len(log) : log[i].stamp \in Nat
  BY Entries
<1> QED BY <1>1, <1>2 DEF StampOrder

LEMMA OrderNext == InductiveInv /\ OrderInv /\ [Next]_vars => OrderInv'
<1> SUFFICES ASSUME InductiveInv, OrderInv, [Next]_vars PROVE OrderInv'
  OBVIOUS
<1>0. TypeInv /\ DirInv /\ PlaceInv /\ QueueOrder /\ LogOrder /\ StampOrder
  BY DEF InductiveInv, OrderInv
<1>1. CASE Offer
  <2>1. /\ offered' = offered + 1
        /\ ring' = ring \/ ring' = Append(ring, offered + 1)
        /\ UNCHANGED <<batch, cur, lastStamp, log>>
    BY <1>1 DEF Offer, thread, rotator
  <2>2. offered \in Nat /\ Len(ring) \in Nat /\ ring \in Seq(Nat)
    BY <1>0, TypeParts
  <2>3. /\ Len(ring') \in Nat
        /\ \A i \in 1 .. Len(ring') :
              \/ i \in 1 .. Len(ring) /\ ring'[i] = ring[i]
              \/ i = Len(ring') /\ ring'[i] = offered + 1 /\ i = Len(ring) + 1
    <3>1. CASE ring' = ring
      BY <2>2, <3>1
    <3>2. CASE ring' = Append(ring, offered + 1)
      <4>1. /\ Len(ring') = Len(ring) + 1 /\ ring'[Len(ring) + 1] = offered + 1
            /\ \A i \in 1 .. Len(ring) : ring'[i] = ring[i]
        BY <2>2, <3>2
      <4> QED BY <2>2, <4>1
    <3> QED BY <2>1, <3>1, <3>2
  <2>4. /\ \A i \in 1 .. Len(ring) : ring[i] \in Nat
        /\ \A i \in 1 .. Len(batch) : batch[i] \in Nat
        /\ \A i \in 1 .. Len(log) : log[i].rec \in Nat
    BY <1>0, Entries
  <2>5. QueueOrder'
    <3>1. UNCHANGED batch
      BY <2>1
    <3>2. offered' = offered + 1
      BY <2>1
    <3>3. \A i \in 1 .. Len(ring) : ring[i] <= offered
      BY <1>0 DEF QueueOrder
    <3>4. \A i \in 1 .. Len(ring') : ring'[i] <= offered'
      BY <2>2, <2>3, <2>4, <3>2, <3>3
    <3>5. \A i, j \in 1 .. Len(ring') : i < j => ring'[i] < ring'[j]
      <4> SUFFICES ASSUME NEW i \in 1 .. Len(ring'), NEW j \in 1 .. Len(ring'), i < j
                   PROVE  ring'[i] < ring'[j]
        OBVIOUS
      <4>1. i \in 1 .. Len(ring) /\ ring'[i] = ring[i] /\ ring[i] \in Nat /\ ring[i] <= offered
        BY <2>2, <2>3, <2>4, <3>3
      <4>2. CASE j \in 1 .. Len(ring) /\ ring'[j] = ring[j]
        BY <1>0, <4>1, <4>2 DEF QueueOrder
      <4>3. CASE ring'[j] = offered + 1
        BY <2>2, <4>1, <4>3
      <4> QED BY <2>3, <4>2, <4>3
    <3>6. \A i \in 1 .. Len(batch), j \in 1 .. Len(ring') : batch[i] < ring'[j]
      <4> SUFFICES ASSUME NEW i \in 1 .. Len(batch), NEW j \in 1 .. Len(ring')
                   PROVE  batch[i] < ring'[j]
        OBVIOUS
      <4>1. batch[i] \in Nat /\ batch[i] <= offered
        BY <1>0, <2>4 DEF QueueOrder
      <4>2. CASE j \in 1 .. Len(ring) /\ ring'[j] = ring[j]
        BY <1>0, <4>2 DEF QueueOrder
      <4>3. CASE ring'[j] = offered + 1
        BY <2>2, <4>1, <4>3
      <4> QED BY <2>3, <4>2, <4>3
    <3>7. \A i \in 1 .. Len(batch) : batch[i] <= offered'
      BY <1>0, <2>2, <2>4, <3>2 DEF QueueOrder
    <3> QED BY <1>0, <3>1, <3>4, <3>5, <3>6, <3>7 DEF QueueOrder
  <2>6. LogOrder'
    <3>1. UNCHANGED <<batch, log>>
      BY <2>1
    <3>2. offered' = offered + 1
      BY <2>1
    <3> QED BY <1>0, <2>2, <2>3, <2>4, <3>1, <3>2 DEF LogOrder, ReadBackInOrder
  <2>7. StampOrder'
    BY <1>0, <2>1 DEF StampOrder
  <2> QED BY <2>5, <2>6, <2>7 DEF OrderInv
<1>2. CASE Start
  <2>1. /\ (\E n \in Nat : OpenFile(n)) \/ OpenFails
        /\ UNCHANGED <<offered, ring, batch, log>>
    BY <1>2 DEF Start, tap
  <2>2. StampOrder'
    BY <1>0, <2>1, CurOnlyLater, StampsStay
  <2> QED BY <1>0, <2>1, <2>2 DEF OrderInv, QueueOrder, LogOrder, ReadBackInOrder
<1>3. CASE Pop
  <2>1. PopCount \in 0 .. Len(ring) /\ Take(PopCount)
    BY <1>0, <1>3, PopTakes
  <2>2. ring \in Seq(Nat) /\ Len(ring) \in Nat /\ offered \in Nat
    BY <1>0, TypeParts
  <2>3. /\ Len(batch') = PopCount /\ Len(ring') = Len(ring) - PopCount
        /\ \A i \in 1 .. PopCount : batch'[i] = ring[i]
        /\ \A i \in 1 .. Len(ring) - PopCount : ring'[i] = ring[PopCount + i]
    BY <2>1, <2>2, TakeDoes
  <2>4. UNCHANGED <<offered, cur, lastStamp, log>>
    BY <1>3 DEF Pop
  <2>5. /\ \A i \in 1 .. Len(ring) : ring[i] \in Nat
        /\ \A i \in 1 .. Len(log) : log[i].rec \in Nat
    BY <1>0, Entries
  <2> HIDE DEF PopCount
  <2>6. PopCount \in Nat /\ PopCount <= Len(ring)
    BY <2>1, <2>2
  <2>7. \A i \in 1 .. Len(batch') : i \in 1 .. Len(ring) /\ i <= PopCount /\ batch'[i] = ring[i]
    BY <2>6, <2>2, <2>3
  <2>8. \A i \in 1 .. Len(ring') : PopCount + i \in 1 .. Len(ring) /\ ring'[i] = ring[PopCount + i]
    BY <2>6, <2>2, <2>3
  <2>9. QueueOrder'
    <3>1. \A i, j \in 1 .. Len(ring') : i < j => ring'[i] < ring'[j]
      <4> SUFFICES ASSUME NEW i \in 1 .. Len(ring'), NEW j \in 1 .. Len(ring'), i < j
                   PROVE  ring'[i] < ring'[j]
        OBVIOUS
      <4>1. i \in Nat /\ j \in Nat /\ PopCount + i < PopCount + j
        BY <2>6
      <4> QED BY <1>0, <2>8, <4>1 DEF QueueOrder
    <3>2. \A i, j \in 1 .. Len(batch') : i < j => batch'[i] < batch'[j]
      BY <1>0, <2>7 DEF QueueOrder
    <3>3. \A i \in 1 .. Len(ring') : ring'[i] <= offered
      BY <1>0, <2>8 DEF QueueOrder
    <3>4. \A i \in 1 .. Len(batch') : batch'[i] <= offered
      BY <1>0, <2>7 DEF QueueOrder
    <3>5. \A i \in 1 .. Len(batch'), j \in 1 .. Len(ring') : batch'[i] < ring'[j]
      <4> SUFFICES ASSUME NEW i \in 1 .. Len(batch'), NEW j \in 1 .. Len(ring')
                   PROVE  batch'[i] < ring'[j]
        OBVIOUS
      <4>1. i \in Nat /\ j \in Nat /\ j > 0 /\ i <= PopCount
        BY <2>7
      <4>2. i < PopCount + j
        BY <2>6, <4>1
      <4> QED BY <1>0, <2>7, <2>8, <4>2 DEF QueueOrder
    <3> QED BY <2>4, <3>1, <3>2, <3>3, <3>4, <3>5 DEF QueueOrder
  <2>10. LogOrder'
    <3>1. \A i \in 1 .. Len(log), j \in 1 .. Len(ring') : log[i].rec < ring'[j]
      BY <1>0, <2>8 DEF LogOrder
    <3>2. \A i \in 1 .. Len(log), j \in 1 .. Len(batch') : log[i].rec < batch'[j]
      BY <1>0, <2>7 DEF LogOrder
    <3> QED BY <1>0, <2>4, <3>1, <3>2 DEF LogOrder, ReadBackInOrder
  <2>11. StampOrder'
    BY <1>0, <2>4 DEF StampOrder
  <2> QED BY <2>9, <2>10, <2>11 DEF OrderInv
<1>4. CASE Write
  <2>1. /\ Writing /\ batch' = Tail(batch)
        /\ log' = Append(log, [rec |-> Head(batch), stamp |-> cur'.stamp])
        /\ UNCHANGED <<offered, ring>>
        /\ (\E n \in Nat : OpenFile(n)) \/ UNCHANGED <<cur, lastStamp>>
    BY <1>4 DEF Write, tap
  <2>2. batch # <<>> /\ batch \in Seq(Nat) /\ log \in Seq([rec : Nat, stamp : Nat])
    BY <1>0, <2>1, TypeParts DEF PlaceInv
  <2>3. cur.stamp \in Nat /\ cur'.stamp \in Nat /\ cur.stamp <= cur'.stamp /\ cur'.stamp <= lastStamp'
    BY <1>0, <2>1, CurOnlyLater, TypeParts
  <2>4. /\ Len(batch) \in Nat /\ Len(batch) > 0 /\ Head(batch) = batch[1] /\ batch[1] \in Nat
        /\ Len(batch') = Len(batch) - 1
        /\ \A i \in 1 .. Len(batch) - 1 : batch'[i] = batch[i + 1]
        /\ \A i \in 1 .. Len(batch) : batch[i] \in Nat
    BY <2>1, <2>2
  <2>5. /\ Len(log) \in Nat /\ Len(log') = Len(log) + 1
        /\ \A i \in 1 .. Len(log) : log'[i] = log[i] /\ log[i].rec \in Nat /\ log[i].stamp \in Nat
        /\ log'[Len(log) + 1] = [rec |-> batch[1], stamp |-> cur'.stamp]
    <3>1. [rec |-> batch[1], stamp |-> cur'.stamp] \in [rec : Nat, stamp : Nat]
      BY <2>3, <2>4
    <3>2. log' = Append(log, [rec |-> batch[1], stamp |-> cur'.stamp])
      BY <2>1, <2>4
    <3>3. /\ Len(log) \in Nat /\ Len(log') = Len(log) + 1
          /\ \A i \in 1 .. Len(log) : log'[i] = log[i]
          /\ log'[Len(log) + 1] = [rec |-> batch[1], stamp |-> cur'.stamp]
      BY <2>2, <3>1, <3>2
    <3> QED BY <1>0, <3>3, Entries
  <2>6. \A i \in 1 .. Len(log') :
           \/ i \in 1 .. Len(log) /\ log'[i] = log[i]
           \/ i = Len(log) + 1 /\ log'[i].rec = batch[1] /\ log'[i].stamp = cur'.stamp
    BY <2>5
  <2>7. /\ offered \in Nat /\ offered' = offered /\ ring' = ring /\ Len(ring) \in Nat
        /\ \A i \in 1 .. Len(ring) : ring[i] \in Nat
    BY <1>0, <2>1, TypeParts, Entries
  <2>8. QueueOrder'
    <3>1. \A i \in 1 .. Len(batch') :
             i \in 1 .. Len(batch) /\ i + 1 \in 1 .. Len(batch) /\ batch'[i] = batch[i + 1]
      BY <2>4
    <3>2. \A i, j \in 1 .. Len(batch') : i < j => batch'[i] < batch'[j]
      <4> SUFFICES ASSUME NEW i \in 1 .. Len(batch'), NEW j \in 1 .. Len(batch'), i < j
                   PROVE  batch'[i] < batch'[j]
        OBVIOUS
      <4>1. i + 1 < j + 1
        OBVIOUS
      <4> QED BY <1>0, <3>1, <4>1 DEF QueueOrder
    <3>3. \A i \in 1 .. Len(batch') : batch'[i] <= offered
      BY <1>0, <3>1 DEF QueueOrder
    <3>4. \A i \in 1 .. Len(batch'), j \in 1 .. Len(ring) : batch'[i] < ring[j]
      BY <1>0, <3>1 DEF QueueOrder
    <3> QED BY <1>0, <2>7, <3>2, <3>3, <3>4 DEF QueueOrder
  <2>9. StampOrder'
    BY <1>0, <2>3, <2>5, <2>6 DEF StampOrder
  <2>10. ReadBackInOrder'
    <3> SUFFICES ASSUME NEW i \in 1 .. Len(log'), NEW j \in 1 .. Len(log'), i < j
                 PROVE  log'[i].rec < log'[j].rec /\ log'[i].stamp <= log'[j].stamp
      BY DEF ReadBackInOrder
    <3>1. i \in 1 .. Len(log) /\ log'[i] = log[i] /\ log[i].stamp \in Nat
      BY <2>5
    <3>2. log[i].rec < batch[1] /\ log[i].stamp <= cur.stamp
      BY <1>0, <2>4, <3>1 DEF LogOrder, StampOrder
    <3>3. CASE j \in 1 .. Len(log)
      BY <1>0, <2>5, <3>1, <3>3 DEF LogOrder, ReadBackInOrder
    <3>4. CASE j = Len(log) + 1
      <4>1. log'[j].rec = batch[1] /\ log'[j].stamp = cur'.stamp
        BY <2>5, <3>4
      <4> QED BY <2>3, <3>1, <3>2, <4>1
    <3>5. j \in 1 .. Len(log) \/ j = Len(log) + 1
      BY <2>6
    <3> QED BY <3>3, <3>4, <3>5
  <2>11. LogOrder'
    <3>1. 1 \in 1 .. Len(batch)
      BY <2>4
    <3>2. /\ batch[1] <= offered
          /\ \A j \in 1 .. Len(ring) : batch[1] < ring[j]
          /\ \A j \in 1 .. Len(batch') : batch[1] < batch'[j]
      <4>1. \A j \in 1 .. Len(batch') : j + 1 \in 1 .. Len(batch) /\ 1 < j + 1 /\ batch'[j] = batch[j + 1]
        BY <2>4
      <4> QED BY <1>0, <3>1, <4>1 DEF QueueOrder
    <3>3. \A i \in 1 .. Len(log') : log'[i].rec <= offered
      BY <1>0, <2>6, <3>2 DEF LogOrder
    <3>4. \A i \in 1 .. Len(log'), j \in 1 .. Len(ring) : log'[i].rec < ring[j]
      BY <1>0, <2>6, <3>2 DEF LogOrder
    <3>5. \A i \in 1 .. Len(log'), j \in 1 .. Len(batch') : log'[i].rec < batch'[j]
      <4>1. \A j \in 1 .. Len(batch') : j + 1 \in 1 .. Len(batch) /\ batch'[j] = batch[j + 1]
        BY <2>4
      <4>2. \A i \in 1 .. Len(log), j \in 1 .. Len(batch') : log[i].rec < batch'[j]
        BY <1>0, <4>1 DEF LogOrder
      <4> QED BY <2>6, <3>2, <4>2
    <3> QED BY <2>7, <2>10, <3>3, <3>4, <3>5 DEF LogOrder
  <2> QED BY <2>8, <2>9, <2>11 DEF OrderInv
<1>5. CASE WriteFails
  <2>1. /\ batch' = <<>> /\ UNCHANGED <<offered, ring, log>>
        /\ (\E n \in Nat : OpenFile(n)) \/ OpenFails \/ UNCHANGED <<cur, lastStamp>>
    BY <1>5 DEF WriteFails, tap, rotator
  <2>2. StampOrder'
    BY <1>0, <2>1, CurOnlyLater, StampsStay
  <2> QED BY <1>0, <2>1, <2>2 DEF OrderInv, QueueOrder, LogOrder, ReadBackInOrder
<1>6. ASSUME UNCHANGED <<offered, ring, batch, cur, lastStamp, log>> PROVE OrderInv'
  BY <1>0, <1>6 DEF OrderInv, QueueOrder, LogOrder, StampOrder, ReadBackInOrder
<1>7. CASE Loop \/ Close \/ Stop \/ UNCHANGED vars
  BY <1>6, <1>7 DEF Loop, Close, Stop, vars, tap, thread, rotator
<1>8. ASSUME NEW c \in Clocks, ClockSet(c) PROVE OrderInv'
  BY <1>6, <1>8 DEF ClockSet, tap, thread, rotator
<1>9. ASSUME NEW limit \in Limits, Restart(limit) PROVE OrderInv'
  BY <1>9 DEF Restart, OrderInv, QueueOrder, LogOrder, StampOrder, ReadBackInOrder, None
<1> QED BY <1>1, <1>2, <1>3, <1>4, <1>5, <1>7, <1>8, <1>9 DEF Next, Thread

\* What a run recorded reads back in the order it was offered when its files are
\* read in the order of their names, whatever the clock did.
THEOREM ReadBackInOrderHolds == Spec => []ReadBackInOrder
<1>1. OrderInv => ReadBackInOrder
  BY DEF OrderInv, LogOrder
<1> QED BY <1>1, InitInv, NextInv, OrderInit, OrderNext, PTL DEF Spec
=============================================================================

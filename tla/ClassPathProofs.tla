-------------------------- MODULE ClassPathProofs --------------------------
(***************************************************************************)
(* Proofs about ClassPath for all command lines, class paths and file      *)
(* systems: what is read of a class file, in which order the class path is *)
(* searched, and what a command line means.                                *)
(***************************************************************************)
EXTENDS ClassPath, WellFoundedInduction, SequenceTheorems, TLAPS

-----------------------------------------------------------------------------
(* Induction for a set, where the library's theorems take an operator,     *)
(* which no prover here instantiates                                       *)

(* A set of numbers that is not empty has a least element. *)
LEMMA LeastNat ==
  ASSUME NEW T, T \subseteq Nat, T # {}
  PROVE  \E x \in T : \A y \in T : x <= y
<1> DEFINE R == OpToRel(<, Nat)
<1>1. IsWellFoundedOn(R, Nat) BY NatLessThanWellFounded, Zenon
<1>2. \A x, y \in Nat : x < y => <<x, y>> \in R BY DEF OpToRel
<1> HIDE DEF R
<1>3. PICK x \in T : \A y \in T : ~ (<<y, x>> \in R) BY <1>1, WFMin, Zenon
<1>4. \A y \in T : ~ (y < x) BY <1>2, <1>3, Zenon
<1>5. \A y \in T : x <= y BY <1>4
<1> QED BY <1>5

(* Induction up to n, for a set. *)
LEMMA Induction ==
  ASSUME NEW n \in Nat, NEW S, 0 \in S, \A i \in 0 .. n - 1 : i \in S => i + 1 \in S
  PROVE  0 .. n \subseteq S
<1> SUFFICES ASSUME NEW k \in 0 .. n, k \notin S PROVE FALSE OBVIOUS
<1> DEFINE T == {i \in 0 .. n : i \notin S}
<1>1. PICK x \in T : \A y \in T : x <= y
  <2> HIDE DEF T
  <2>1. T \subseteq Nat /\ T # {} BY DEF T
  <2> QED BY <2>1, LeastNat
<1>2. x - 1 \in 0 .. n - 1 BY <1>1
<1>3. x - 1 \in S BY <1>1, <1>2
<1> QED BY <1>1, <1>2, <1>3

(* f has n steps of G, from a, in V *)
Iterates(f, n, V, a, G) ==
  f \in [0 .. n -> V] /\ f[0] = a /\ \A i \in 1 .. n : f[i] = G[i][f[i - 1]]

(* There is a function with a given start whose every value is computed    *)
(* from the one before.                                                    *)
LEMMA RecursionExists ==
  ASSUME NEW n \in Nat, NEW V, NEW a \in V, NEW G \in [1 .. n -> [V -> V]]
  PROVE  \E f : Iterates(f, n, V, a, G)
<1> DEFINE Upto(k, f) == f[0] = a /\ \A i \in 1 .. k : f[i] = G[i][f[i - 1]]
           S == {k \in 0 .. n : \E f \in [0 .. k -> V] : Upto(k, f)}
<1>1. 0 \in S
  <2> DEFINE g == [i \in 0 .. 0 |-> a]
  <2>1. g \in [0 .. 0 -> V] /\ Upto(0, g) OBVIOUS
  <2>2. \E f \in [0 .. 0 -> V] : Upto(0, f) BY <2>1, Zenon
  <2>3. 0 \in 0 .. n OBVIOUS
  <2> QED BY <2>2, <2>3, Zenon
<1>2. \A k \in 0 .. n - 1 : k \in S => k + 1 \in S
  <2> SUFFICES ASSUME NEW k \in 0 .. n - 1, k \in S PROVE k + 1 \in S OBVIOUS
  <2>1. PICK f \in [0 .. k -> V] : Upto(k, f) OBVIOUS
  <2> DEFINE g == [i \in 0 .. k + 1 |-> IF i = k + 1 THEN G[k + 1][f[k]] ELSE f[i]]
  <2>2. g \in [0 .. k + 1 -> V] OBVIOUS
  <2>3. g[0] = a BY <2>1
  <2>4. \A i \in 1 .. k + 1 : g[i] = G[i][g[i - 1]] BY <2>1
  <2>5. \E h \in [0 .. k + 1 -> V] : Upto(k + 1, h)
    <3> HIDE DEF g
    <3> QED BY <2>2, <2>3, <2>4, Zenon
  <2>6. k + 1 \in 0 .. n OBVIOUS
  <2> QED BY <2>5, <2>6, Zenon
<1>3. n \in S
  <2> HIDE DEF S
  <2>1. 0 .. n \subseteq S BY <1>1, <1>2, Induction
  <2> QED BY <2>1
<1> QED BY <1>3 DEF Iterates

(* Two functions that start the same and continue the same end the same. *)
LEMMA SameIteration ==
  ASSUME NEW n \in Nat, NEW f, NEW h, h[0] = f[0],
         \A i \in 1 .. n : h[i - 1] = f[i - 1] => h[i] = f[i]
  PROVE  h[n] = f[n]
<1> DEFINE S == {i \in 0 .. n : h[i] = f[i]}
<1>1. 0 \in S OBVIOUS
<1>2. \A i \in 0 .. n - 1 : i \in S => i + 1 \in S
  <2> SUFFICES ASSUME NEW i \in 0 .. n - 1, i \in S PROVE i + 1 \in S OBVIOUS
  <2>1. i + 1 \in 0 .. n /\ i + 1 \in 1 .. n /\ (i + 1) - 1 = i OBVIOUS
  <2> QED BY <2>1, Zenon
<1>3. n \in S
  <2> HIDE DEF S
  <2>1. 0 .. n \subseteq S BY <1>1, <1>2, Induction
  <2> QED BY <2>1
<1> QED BY <1>3

(* Functions are equal when their values are. *)
LEMMA SameFunction ==
  ASSUME NEW D, NEW f, NEW h, f = [i \in D |-> f[i]], h = [i \in D |-> h[i]],
         \A i \in D : f[i] = h[i]
  PROVE  f = h
OBVIOUS

-----------------------------------------------------------------------------
(* What is read of a class file *)

Parts == {"files", "links", "archives", "makeable", "listing", "jres", "javaHome", "lib", "ext"}

(* Others change a file system only in ways that leave it one. *)
SystemOK ==
  /\ DOMAIN system = Parts
  /\ \A f \in DOMAIN system.files : system.files[f] \in Nat

(* What lstat gives for a file *)
LstatOf(f) ==
  IF f \in system.links THEN LinkSize
  ELSE IF f \in DOMAIN system.files THEN system.files[f] ELSE Garbage

(* A size is kept only while a directory is asked, and is what lstat would *)
(* give again unless the file system was changed since.                    *)
SizeOK ==
  /\ size \in Int
  /\ size /= None =>
       /\ status = "reading" /\ left /= << >> /\ Asked.kind = "dir"
       /\ changed /= "within" => size = LstatOf(File)

ReadInv == SystemOK /\ SizeOK /\ WholeFile

LEMMA SizesAreNat == LinkSize \in Nat /\ Sizes \subseteq Nat
BY SystemsAssumption

LEMMA LstatGivesInt ==
  ASSUME SystemOK, NEW f
  PROVE  /\ LstatOf(f) \in Int
         /\ f \in DOMAIN system.files => LstatOf(f) \in Nat
<1>1. CASE f \in system.links
  BY <1>1, SizesAreNat DEF LstatOf
<1>2. CASE f \notin system.links /\ f \in DOMAIN system.files
  BY <1>2 DEF LstatOf, SystemOK
<1>3. CASE f \notin system.links /\ f \notin DOMAIN system.files
  BY <1>3 DEF LstatOf, Garbage
<1>. QED  BY <1>1, <1>2, <1>3

LEMMA DisturbedSystem ==
  ASSUME ReadInv, NEW fs, Disturb(fs), DOMAIN fs = Parts, fs.links \subseteq system.links,
         \A f \in DOMAIN fs.files : fs.files[f] \in Nat
  PROVE  ReadInv'
<1>1. SystemOK'
  BY DEF Disturb, SystemOK
<1>2. SizeOK'
  BY DEF ReadInv, SizeOK, Disturb, Asked, LstatOf, File
<1>3. WholeFile'
  BY DEF WholeFile, Disturb
<1>. QED  BY <1>1, <1>2, <1>3 DEF ReadInv

LEMMA ReadInvNext ==
  ASSUME ReadInv, [Next]_vars
  PROVE  ReadInv'
<1>. USE DEF ReadInv
<1>1. CASE ParseCommand
  BY <1>1 DEF ParseCommand, SystemOK, SizeOK, WholeFile
<1>2. CASE ParseClassPaths
  BY <1>2 DEF ParseClassPaths, SystemOK, SizeOK, WholeFile
<1>3. CASE ReadClass
  BY <1>3 DEF ReadClass, SystemOK, SizeOK, WholeFile
<1>4. CASE Lstat
  <2>1. SystemOK' /\ WholeFile'
    BY <1>4 DEF Lstat, SystemOK, WholeFile
  <2>2. SizeOK'
    <3>1. size' = LstatOf(File) /\ UNCHANGED <<system, query, left, status>>
      BY <1>4 DEF Lstat, LstatOf
    <3>2. LstatOf(File) \in Int
      BY LstatGivesInt
    <3>3. status = "reading" /\ left /= << >> /\ Asked.kind = "dir"
      BY <1>4 DEF Lstat, Asking
    <3>. QED  BY <3>1, <3>2, <3>3 DEF SizeOK, LstatOf, Asked, File
  <2>. QED  BY <2>1, <2>2
<1>5. CASE ReadFile
  <2>1. SystemOK' /\ SizeOK'
    BY <1>5 DEF ReadFile, SystemOK, SizeOK, None
  <2>2. WholeFile'
    <3>1. CASE File \notin DOMAIN system.files
      BY <1>5, <3>1 DEF ReadFile, WholeFile, Asking
    <3>2. CASE File \in DOMAIN system.files /\ size = Garbage
      <4>1. status' = "undefined" /\ UNCHANGED changed /\ size /= None
        BY <1>5, <3>2 DEF ReadFile
      <4>2. LstatOf(File) \in Nat
        BY <3>2, LstatGivesInt
      <4>3. changed = "within"
        BY <3>2, <4>1, <4>2 DEF SizeOK, Garbage
      <4>. QED  BY <4>1, <4>3 DEF WholeFile
    <3>3. CASE File \in DOMAIN system.files /\ size /= Garbage /\ size > system.files[File]
      BY <1>5, <3>3 DEF ReadFile, WholeFile, Asking
    <3>4. CASE File \in DOMAIN system.files /\ size /= Garbage /\ ~ (size > system.files[File])
      <4>1. /\ status' = "found" /\ UNCHANGED <<system, query, changed>>
            /\ answer' = [reader |-> Asked, file |-> system.files[File], taken |-> size]
        BY <1>5, <3>4 DEF ReadFile, Found
      <4>2. size \in Int /\ system.files[File] \in Nat
        BY <3>4 DEF SystemOK, SizeOK
      <4>. QED  BY <4>1, <4>2, <3>4, <1>5 DEF WholeFile, ReadFile, SizeOK, LstatOf, File
    <3>. QED  BY <3>1, <3>2, <3>3, <3>4
  <2>. QED  BY <2>1, <2>2
<1>6. CASE ReadArchive
  <2>1. SystemOK'
    BY <1>6 DEF ReadArchive, SystemOK
  <2>2. size = None /\ SizeOK'
    BY <1>6 DEF ReadArchive, SizeOK, Asking
  <2>3. WholeFile'
    BY <1>6 DEF ReadArchive, WholeFile, Asking, Found
  <2>. QED  BY <2>1, <2>2, <2>3
<1>12. CASE OpenMissing
  <2>1. PICK archives : system' = system \/ system' = [system EXCEPT !.archives = archives]
    BY <1>12, Zenon DEF OpenMissing
  <2>2. DOMAIN system' = DOMAIN system /\ system'.files = system.files /\ system'.links = system.links
    BY <2>1 DEF SystemOK, Parts
  <2>3. SystemOK'
    BY <2>2 DEF SystemOK
  <2>4. size = None /\ SizeOK'
    BY <1>12 DEF OpenMissing, SizeOK, Asking
  <2>5. status' \in {"reading", "thrown"}
    BY <1>12 DEF OpenMissing, Asking
  <2>6. WholeFile'
    BY <2>5 DEF WholeFile
  <2>. QED  BY <2>3, <2>4, <2>6
<1>7. CASE NotFound
  BY <1>7 DEF NotFound, SystemOK, SizeOK, WholeFile
<1>8. CASE WriteFile
  <2>1. PICK r \in ToSet(left), n \in Sizes :
          LET f == <<r.path, query.class>> IN
          Disturb([system EXCEPT !.files = [g \in DOMAIN @ \cup {f} |-> IF g = f THEN n ELSE @[g]]])
    BY <1>8, Zenon DEF WriteFile
  <2>. DEFINE f == <<r.path, query.class>>
              files == [g \in DOMAIN system.files \cup {f} |->
                          IF g = f THEN n ELSE system.files[g]]
              fs == [system EXCEPT !.files = files]
  <2>2. fs.files = files /\ fs.links = system.links /\ DOMAIN fs = Parts
    BY DEF SystemOK, Parts
  <2>3. \A g \in DOMAIN files : files[g] \in Nat
    BY SizesAreNat DEF SystemOK
  <2>4. Disturb(fs)
    BY <2>1
  <2>. HIDE DEF fs, files
  <2>. QED  BY <2>2, <2>3, <2>4, DisturbedSystem
<1>9. CASE RemoveFile
  <2>1. PICK f : Disturb([system EXCEPT !.files = [g \in DOMAIN @ \ {f} |-> @[g]],
                                        !.links = @ \ {f}])
    BY <1>9 DEF RemoveFile
  <2>. DEFINE files == [g \in DOMAIN system.files \ {f} |-> system.files[g]]
              fs == [system EXCEPT !.files = files, !.links = @ \ {f}]
  <2>2. fs.files = files /\ fs.links = system.links \ {f} /\ DOMAIN fs = Parts
    BY DEF SystemOK, Parts
  <2>3. \A g \in DOMAIN files : files[g] \in Nat
    BY DEF SystemOK
  <2>4. Disturb(fs)
    BY <2>1
  <2>. HIDE DEF fs, files
  <2>. QED  BY <2>2, <2>3, <2>4, DisturbedSystem
<1>10. CASE RemoveArchive \/ DamageArchive
  <2>1. PICK archives : Disturb([system EXCEPT !.archives = archives])
    <3>1. CASE RemoveArchive
      BY <3>1 DEF RemoveArchive
    <3>2. CASE DamageArchive
      <4>1. PICK a : Disturb([system EXCEPT !.archives[a] = EmptyArchive])
        BY <3>2 DEF DamageArchive
      <4>2. [system EXCEPT !.archives[a] = EmptyArchive]
              = [system EXCEPT !.archives = [system.archives EXCEPT ![a] = EmptyArchive]]
        OBVIOUS
      <4>. QED  BY <4>1, <4>2, Zenon
    <3>. QED  BY <1>10, <3>1, <3>2
  <2>. DEFINE fs == [system EXCEPT !.archives = archives]
  <2>2. fs.files = system.files /\ fs.links = system.links /\ DOMAIN fs = Parts
    BY DEF SystemOK, Parts
  <2>3. \A g \in DOMAIN system.files : system.files[g] \in Nat
    BY DEF SystemOK
  <2>4. Disturb(fs)
    BY <2>1
  <2>. HIDE DEF fs
  <2>. QED  BY <2>2, <2>3, <2>4, DisturbedSystem
<1>11. CASE UNCHANGED vars
  BY <1>11 DEF vars, SystemOK, SizeOK, WholeFile, Asked, File, LstatOf
<1>. QED
  BY <1>1, <1>2, <1>3, <1>4, <1>5, <1>6, <1>7, <1>8, <1>9, <1>10, <1>11, <1>12 DEF Next

LEMMA ReadInvAlways == Spec => []ReadInv
<1>1. Init => ReadInv
  <2>. SUFFICES ASSUME Init PROVE ReadInv
    OBVIOUS
  <2>1. SystemOK
    BY SystemsAssumption, Zenon DEF Init, SystemOK, Parts
  <2>2. SizeOK /\ WholeFile
    BY DEF Init, SizeOK, WholeFile, None
  <2>. QED  BY <2>1, <2>2 DEF ReadInv
<1>. QED  BY <1>1, ReadInvNext, PTL DEF Spec

(* A class file that was read is whole unless it is a link or was written  *)
(* to between lstat and the read, and an unfilled stat is used only for a  *)
(* file made in between (class_reader.cpp:130-153), for all file systems   *)
(* and whatever the others write.                                          *)
THEOREM WholeFileAlways == Spec => []WholeFile
BY ReadInvAlways, PTL DEF ReadInv

-----------------------------------------------------------------------------
(* The order of the readers *)

(* The provers do not know the empty string for a string. *)
Paths == STRING \cup {""}
Readers == [kind : {"dir", "zip"}, path : Paths]
PathEntries == [kind : EntryKinds, path : STRING]

ListingOK ==
  /\ "" \notin DOMAIN system.listing
  /\ \A path \in DOMAIN system.listing : system.listing[path] \in Seq(STRING)

(* g tells for each reader of seq which entry of es it was made for. *)
RankedBy(seq, es, g) ==
  /\ g \in [1 .. Len(seq) -> 1 .. Len(es)]
  /\ \A p, q \in 1 .. Len(seq) : p <= q => g[p] <= g[q]
  /\ \A p \in 1 .. Len(seq) : seq[p] \in ReadersOf(es[g[p]])
  /\ \A i \in 1 .. Len(es) : \A r \in ReadersOf(es[i]) :
       \E p \in 1 .. Len(seq) : g[p] = i /\ seq[p] = r

(* The readers of seq are the ones of es, in the order of es. *)
Ranked(seq, es) == \E g : RankedBy(seq, es, g)

LEMMA RankedEmpty == Ranked(<< >>, << >>)
<1>. DEFINE g == [i \in 1 .. 0 |-> 0]
<1>1. RankedBy(<< >>, << >>, g)
  BY DEF RankedBy
<1>. QED  BY <1>1, Zenon DEF Ranked

LEMMA ReaderTypes ==
  ASSUME NEW path \in Paths
  PROVE  DirReader(path) \in Readers /\ ZipReader(path) \in Readers
<1>. HIDE DEF Paths
<1>. QED  BY DEF DirReader, ZipReader, Readers

LEMMA StringsArePaths == STRING \subseteq Paths /\ "" \in Paths
BY Zenon DEF Paths

LEMMA ElementsIn ==
  ASSUME NEW V, NEW s \in Seq(V)
  PROVE  \A i \in DOMAIN s : s[i] \in V
OBVIOUS

LEMMA OneElement ==
  ASSUME NEW V, NEW r \in V
  PROVE  /\ <<r>> \in Seq(V) /\ Len(<<r>>) \in Nat
         /\ \A p \in 1 .. Len(<<r>>) : <<r>>[p] \in {r}
         /\ \A q \in {r} : \E p \in 1 .. Len(<<r>>) : <<r>>[p] = q
OBVIOUS

LEMMA WildcardReaders ==
  ASSUME ListingOK, NEW path \in Paths
  PROVE  /\ GetFiles(path) \in Seq(STRING)
         /\ Wildcard(path) \in Seq(Readers)
         /\ Len(Wildcard(path)) = Len(GetFiles(path)) + 1
         /\ Wildcard(path)[1] = DirReader(path)
         /\ \A i \in 1 .. Len(GetFiles(path)) :
              Wildcard(path)[i + 1] = ZipReader(GetFiles(path)[i])
<1>1. GetFiles(path) \in Seq(STRING)
  <2>1. << >> \in Seq(STRING)
    OBVIOUS
  <2>. QED  BY <2>1, Zenon DEF GetFiles, ListingOK
<1>. DEFINE files == GetFiles(path)
            zips == [i \in DOMAIN files |-> ZipReader(files[i])]
<1>2. /\ zips \in Seq(Readers) /\ Len(zips) = Len(files)
      /\ \A i \in 1 .. Len(files) : zips[i] = ZipReader(files[i])
  <2>. HIDE DEF files
  <2>1. files \in Seq(STRING)
    BY <1>1 DEF files
  <2>2. \A i \in DOMAIN files : ZipReader(files[i]) \in Readers
    <3>1. \A i \in DOMAIN files : files[i] \in Paths
      BY <2>1, StringsArePaths, ElementsIn, Zenon
    <3>. QED  BY <3>1, ReaderTypes, Zenon
  <2>. QED  BY <2>1, <2>2
<1>3. DirReader(path) \in Readers
  BY ReaderTypes
<1>4. Wildcard(path) = <<DirReader(path)>> \o zips
  BY DEF Wildcard
<1>. HIDE DEF files, zips
<1>5. /\ <<DirReader(path)>> \o zips \in Seq(Readers)
      /\ Len(<<DirReader(path)>> \o zips) = Len(files) + 1
      /\ (<<DirReader(path)>> \o zips)[1] = DirReader(path)
      /\ \A i \in 1 .. Len(files) : (<<DirReader(path)>> \o zips)[i + 1] = zips[i]
  <2>. DEFINE d == DirReader(path)
  <2>. HIDE DEF d
  <2>0. d \in Readers
    BY <1>3 DEF d
  <2>1. /\ <<d>> \in Seq(Readers) /\ Len(<<d>>) = 1 /\ <<d>>[1] = d
        /\ Len(zips) \in Nat
    BY <1>2, <2>0
  <2>2. /\ <<d>> \o zips \in Seq(Readers) /\ Len(<<d>> \o zips) = Len(<<d>>) + Len(zips)
        /\ \A i \in 1 .. Len(<<d>>) + Len(zips) :
             (<<d>> \o zips)[i] = IF i <= Len(<<d>>) THEN <<d>>[i] ELSE zips[i - Len(<<d>>)]
    <3>1. zips \in Seq(Readers) /\ <<d>> \in Seq(Readers)
      BY <1>2, <2>1
    <3>. DEFINE one == <<d>>
    <3>. HIDE DEF one
    <3>2. one \in Seq(Readers)
      BY <3>1 DEF one
    <3>3. /\ one \o zips \in Seq(Readers) /\ Len(one \o zips) = Len(one) + Len(zips)
          /\ \A i \in 1 .. Len(one) + Len(zips) :
               (one \o zips)[i] = IF i <= Len(one) THEN one[i] ELSE zips[i - Len(one)]
      BY <3>1, <3>2, ConcatProperties
    <3>. QED  BY <3>3 DEF one
  <2>3. Len(<<d>> \o zips) = Len(files) + 1
    BY <1>2, <2>1, <2>2
  <2>4. (<<d>> \o zips)[1] = d
    BY <2>1, <2>2
  <2>5. \A i \in 1 .. Len(files) : (<<d>> \o zips)[i + 1] = zips[i]
    BY <1>2, <2>1, <2>2
  <2>. QED  BY <2>2, <2>3, <2>4, <2>5 DEF d
<1>. QED  BY <1>1, <1>2, <1>4, <1>5, Zenon DEF files

(* The readers made for one entry are the ones it has. *)
LEMMA RankedOne ==
  ASSUME ListingOK, NEW e \in PathEntries
  PROVE  EntryReaders(e) \in Seq(Readers) /\ Ranked(EntryReaders(e), <<e>>)
<1>. DEFINE seq == EntryReaders(e)
<1>1. /\ seq \in Seq(Readers) /\ Len(seq) \in Nat
      /\ \A p \in 1 .. Len(seq) : seq[p] \in ReadersOf(e)
      /\ \A r \in ReadersOf(e) : \E p \in 1 .. Len(seq) : seq[p] = r
  <2>1. CASE e.kind = "dir"
    <3>1. seq = <<DirReader(e.path)>> /\ ReadersOf(e) = {DirReader(e.path)}
      BY <2>1 DEF EntryReaders, ReadersOf
    <3>2. DirReader(e.path) \in Readers
      BY StringsArePaths, ReaderTypes DEF PathEntries
    <3>. HIDE DEF seq
    <3>. QED  BY <3>1, <3>2, OneElement, Zenon
  <2>2. CASE e.kind = "zip"
    <3>1. seq = <<ZipReader(e.path)>> /\ ReadersOf(e) = {ZipReader(e.path)}
      BY <2>2 DEF EntryReaders, ReadersOf
    <3>2. ZipReader(e.path) \in Readers
      BY StringsArePaths, ReaderTypes DEF PathEntries
    <3>. HIDE DEF seq
    <3>. QED  BY <3>1, <3>2, OneElement, Zenon
  <2>3. CASE e.kind = "star"
    <3>1. seq = Wildcard(e.path) /\ e.path \in Paths
      BY <2>3 DEF EntryReaders, PathEntries, Paths
    <3>2. ReadersOf(e) = {DirReader(e.path)} \cup {ZipReader(a) : a \in ToSet(GetFiles(e.path))}
      BY <2>3 DEF ReadersOf
    <3>. DEFINE files == GetFiles(e.path)
    <3>3. /\ files \in Seq(STRING) /\ seq \in Seq(Readers) /\ Len(seq) = Len(files) + 1
          /\ seq[1] = DirReader(e.path)
          /\ \A i \in 1 .. Len(files) : seq[i + 1] = ZipReader(files[i])
      BY <3>1, WildcardReaders
    <3>. HIDE DEF seq, files
    <3>4. ToSet(files) = {files[i] : i \in 1 .. Len(files)}
      BY <3>3 DEF ToSet
    <3>5. \A p \in 1 .. Len(seq) : seq[p] \in ReadersOf(e)
      <4>. SUFFICES ASSUME NEW p \in 1 .. Len(seq) PROVE seq[p] \in ReadersOf(e)
        OBVIOUS
      <4>1. CASE p = 1
        BY <3>2, <3>3, <4>1, Zenon
      <4>2. CASE p /= 1
        <5>1. p - 1 \in 1 .. Len(files) /\ (p - 1) + 1 = p
          BY <3>3, <4>2
        <5>2. seq[p] = ZipReader(files[p - 1]) /\ files[p - 1] \in ToSet(files)
          BY <3>3, <3>4, <5>1
        <5>. QED  BY <3>2, <5>2, Zenon DEF files
      <4>. QED  BY <4>1, <4>2
    <3>6. \A r \in ReadersOf(e) : \E p \in 1 .. Len(seq) : seq[p] = r
      <4>. SUFFICES ASSUME NEW r \in ReadersOf(e) PROVE \E p \in 1 .. Len(seq) : seq[p] = r
        OBVIOUS
      <4>1. CASE r = DirReader(e.path)
        <5>1. 1 \in 1 .. Len(seq)
          BY <3>3
        <5>. QED  BY <3>3, <4>1, <5>1, Zenon
      <4>2. CASE r /= DirReader(e.path)
        <5>1. PICK a \in ToSet(files) : r = ZipReader(a)
          BY <3>2, <4>2, Zenon DEF files
        <5>2. PICK i \in 1 .. Len(files) : files[i] = a
          BY <3>4, <5>1, Zenon
        <5>3. i + 1 \in 1 .. Len(seq)
          BY <3>3, <5>2
        <5>4. seq[i + 1] = r
          BY <3>3, <5>1, <5>2, Zenon
        <5>. QED  BY <5>3, <5>4, Zenon
      <4>. QED  BY <4>1, <4>2
    <3>. QED  BY <3>3, <3>5, <3>6
  <2>4. CASE e.kind = "empty"
    <3>0. "" \in Paths
      BY Zenon DEF Paths
    <3>1. seq = Wildcard("")
      BY <2>4 DEF EntryReaders
    <3>2. GetFiles("") = << >>
      BY Zenon DEF GetFiles, ListingOK
    <3>3. seq \in Seq(Readers) /\ Len(seq) = Len(GetFiles("")) + 1 /\ seq[1] = DirReader("")
      BY <3>0, <3>1, WildcardReaders, Zenon
    <3>4. ReadersOf(e) = {DirReader("")}
      BY <2>4 DEF ReadersOf
    <3>. HIDE DEF seq
    <3>5. Len(seq) = 1
      <4>1. Len(seq) = Len(<< >>) + 1
        BY <3>2, <3>3, Zenon
      <4>. QED  BY <4>1
    <3>6. Len(seq) \in Nat /\ 1 \in 1 .. Len(seq) /\ \A p \in 1 .. Len(seq) : p = 1
      BY <3>5
    <3>. QED  BY <3>3, <3>4, <3>6, Zenon
  <2>. QED  BY <2>1, <2>2, <2>3, <2>4 DEF PathEntries, EntryKinds
<1>. HIDE DEF seq
<1>. DEFINE g == [p \in 1 .. Len(seq) |-> 1]
<1>2. RankedBy(seq, <<e>>, g)
  <2>1. Len(<<e>>) = 1 /\ <<e>>[1] = e
    OBVIOUS
  <2>2. g \in [1 .. Len(seq) -> 1 .. 1] /\ \A p \in 1 .. Len(seq) : g[p] = 1
    OBVIOUS
  <2>3. \A i \in 1 .. 1 : i = 1
    OBVIOUS
  <2>4. \A p, q \in 1 .. Len(seq) : p <= q => g[p] <= g[q]
    OBVIOUS
  <2>. HIDE DEF g
  <2>5. \A p \in 1 .. Len(seq) : seq[p] \in ReadersOf(<<e>>[g[p]])
    BY <1>1, <2>1, <2>2, Zenon
  <2>6. \A i \in 1 .. 1 : \A r \in ReadersOf(<<e>>[i]) :
          \E p \in 1 .. Len(seq) : g[p] = i /\ seq[p] = r
    BY <1>1, <2>1, <2>2, <2>3, Zenon
  <2>7. 1 .. Len(<<e>>) = 1 .. 1
    BY <2>1
  <2>. QED  BY <2>2, <2>4, <2>5, <2>6, <2>7, Zenon DEF RankedBy
<1>. QED  BY <1>1, <1>2, Zenon DEF Ranked, seq

(* Entries behind entries have their readers behind readers. *)
LEMMA RankedConcat ==
  ASSUME NEW V, NEW W, NEW s1 \in Seq(V), NEW s2 \in Seq(V), NEW e1 \in Seq(W), NEW e2 \in Seq(W),
         Ranked(s1, e1), Ranked(s2, e2)
  PROVE  Ranked(s1 \o s2, e1 \o e2)
<1>. DEFINE m == Len(s1)  n == Len(s2)  k == Len(e1)  l == Len(e2)  s == s1 \o s2  es == e1 \o e2
<1>1. PICK g1 : RankedBy(s1, e1, g1)
  BY DEF Ranked
<1>2. PICK g2 : RankedBy(s2, e2, g2)
  BY DEF Ranked
<1>3. m \in Nat /\ n \in Nat /\ k \in Nat /\ l \in Nat /\ Len(s) = m + n /\ Len(es) = k + l
  OBVIOUS
<1>4. /\ \A p \in 1 .. m : s[p] = s1[p]
      /\ \A p \in 1 .. n : s[m + p] = s2[p]
      /\ \A i \in 1 .. k : es[i] = e1[i]
      /\ \A i \in 1 .. l : es[k + i] = e2[i]
  BY SMTT(30)
<1>5. g1 \in [1 .. m -> 1 .. k] /\ g2 \in [1 .. n -> 1 .. l]
  BY <1>1, <1>2 DEF RankedBy
<1>. DEFINE g == [p \in 1 .. m + n |-> IF p <= m THEN g1[p] ELSE k + g2[p - m]]
<1>. HIDE DEF m, n, k, l, s, es
<1>6. g \in [1 .. m + n -> 1 .. k + l]
  BY <1>3, <1>5, SMTT(30)
<1>7. /\ \A p \in 1 .. m : p \in 1 .. m + n /\ g[p] = g1[p]
      /\ \A p \in 1 .. n : m + p \in 1 .. m + n /\ g[m + p] = k + g2[p]
  BY <1>3
<1>8. \A p \in 1 .. m + n : p \in 1 .. m \/ \E q \in 1 .. n : p = m + q
  <2>. SUFFICES ASSUME NEW p \in 1 .. m + n, p \notin 1 .. m PROVE \E q \in 1 .. n : p = m + q
    OBVIOUS
  <2>1. p - m \in 1 .. n /\ p = m + (p - m)
    BY <1>3
  <2>. QED  BY <2>1
<1>9. \A p, q \in 1 .. m + n : p <= q => g[p] <= g[q]
  <2>. SUFFICES ASSUME NEW p \in 1 .. m + n, NEW q \in 1 .. m + n, p <= q PROVE g[p] <= g[q]
    OBVIOUS
  <2>1. CASE q <= m
    <3>1. p \in 1 .. m /\ q \in 1 .. m
      BY <2>1, <1>3
    <3>. QED  BY <3>1, <1>1, <1>7 DEF RankedBy, m
  <2>2. CASE p <= m /\ ~ (q <= m)
    <3>1. p \in 1 .. m /\ q - m \in 1 .. n
      BY <2>2, <1>3
    <3>2. g[p] = g1[p] /\ g[q] = k + g2[q - m]
      BY <2>2
    <3>. QED  BY <1>3, <1>5, <3>1, <3>2
  <2>3. CASE ~ (p <= m)
    <3>1. p - m \in 1 .. n /\ q - m \in 1 .. n /\ p - m <= q - m
      BY <2>3, <1>3
    <3>2. g[p] = k + g2[p - m] /\ g[q] = k + g2[q - m]
      BY <2>3, <1>3
    <3>3. g2[p - m] <= g2[q - m]
      BY <1>2, <3>1 DEF RankedBy, n
    <3>. QED  BY <1>3, <1>5, <3>1, <3>2, <3>3
  <2>. QED  BY <2>1, <2>2, <2>3
<1>. HIDE DEF g
<1>10. \A p \in 1 .. m + n : s[p] \in ReadersOf(es[g[p]])
  <2>1. \A p \in 1 .. m : s[p] \in ReadersOf(es[g[p]])
    <3>. SUFFICES ASSUME NEW p \in 1 .. m PROVE s[p] \in ReadersOf(es[g[p]])
      OBVIOUS
    <3>1. g1[p] \in 1 .. k
      BY <1>5
    <3>2. s1[p] \in ReadersOf(e1[g1[p]])
      BY <1>1, Zenon DEF RankedBy, m
    <3>. QED  BY <1>4, <1>7, <3>1, <3>2, Zenon
  <2>2. \A p \in 1 .. n : s[m + p] \in ReadersOf(es[g[m + p]])
    <3>. SUFFICES ASSUME NEW p \in 1 .. n PROVE s[m + p] \in ReadersOf(es[g[m + p]])
      OBVIOUS
    <3>1. g2[p] \in 1 .. l
      BY <1>5
    <3>2. s2[p] \in ReadersOf(e2[g2[p]])
      BY <1>2, Zenon DEF RankedBy, n
    <3>. QED  BY <1>4, <1>7, <3>1, <3>2, Zenon
  <2>. QED  BY <1>8, <2>1, <2>2, Zenon
<1>11. \A i \in 1 .. k + l : \A r \in ReadersOf(es[i]) : \E p \in 1 .. m + n : g[p] = i /\ s[p] = r
  <2>. SUFFICES ASSUME NEW i \in 1 .. k + l, NEW r \in ReadersOf(es[i])
                PROVE  \E p \in 1 .. m + n : g[p] = i /\ s[p] = r
    OBVIOUS
  <2>1. CASE i <= k
    <3>1. i \in 1 .. k
      BY <1>3, <2>1
    <3>2. r \in ReadersOf(e1[i])
      BY <1>4, <3>1, Zenon
    <3>3. PICK p \in 1 .. m : g1[p] = i /\ s1[p] = r
      BY <1>1, <3>1, <3>2, Zenon DEF RankedBy, m, k
    <3>. QED  BY <1>4, <1>7, <3>3, Zenon
  <2>2. CASE ~ (i <= k)
    <3>1. i - k \in 1 .. l /\ k + (i - k) = i
      BY <1>3, <2>2
    <3>2. r \in ReadersOf(e2[i - k])
      BY <1>4, <3>1, Zenon
    <3>3. PICK p \in 1 .. n : g2[p] = i - k /\ s2[p] = r
      BY <1>2, <3>1, <3>2, Zenon DEF RankedBy, n, l
    <3>4. m + p \in 1 .. m + n /\ g[m + p] = k + g2[p] /\ s[m + p] = s2[p]
      BY <1>4, <1>7, Zenon
    <3>5. g[m + p] = i /\ s[m + p] = r
      BY <3>1, <3>3, <3>4
    <3>. QED  BY <3>4, <3>5, Zenon
  <2>. QED  BY <2>1, <2>2
<1>12. RankedBy(s, es, g)
  <2>1. 1 .. Len(s) = 1 .. m + n /\ 1 .. Len(es) = 1 .. k + l
    BY <1>3
  <2>2. /\ g \in [1 .. Len(s) -> 1 .. Len(es)]
        /\ \A p, q \in 1 .. Len(s) : p <= q => g[p] <= g[q]
    BY <2>1, <1>6, <1>9
  <2>3. \A p \in 1 .. Len(s) : s[p] \in ReadersOf(es[g[p]])
    BY <2>1, <1>10
  <2>4. \A i \in 1 .. Len(es) : \A r \in ReadersOf(es[i]) :
          \E p \in 1 .. Len(s) : g[p] = i /\ s[p] = r
    <3>. SUFFICES ASSUME NEW i \in 1 .. Len(es), NEW r \in ReadersOf(es[i])
                  PROVE  \E p \in 1 .. Len(s) : g[p] = i /\ s[p] = r
      BY Zenon
    <3>1. i \in 1 .. k + l
      BY <2>1, Zenon
    <3>2. PICK p \in 1 .. m + n : g[p] = i /\ s[p] = r
      BY <1>11, <3>1, Zenon
    <3>3. p \in 1 .. Len(s)
      BY <2>1, Zenon
    <3>. QED  BY <3>2, <3>3, Zenon
  <2>. QED  BY <2>2, <2>3, <2>4, Zenon DEF RankedBy
<1>. QED  BY <1>12, Zenon DEF Ranked, s, es

(* FlattenSeq one sequence at a time *)
FlattenedBy(f, V, seqs) ==
  /\ f \in [0 .. Len(seqs) -> Seq(V)]
  /\ f[0] = << >>
  /\ \A i \in 1 .. Len(seqs) : f[i] = f[i - 1] \o seqs[i]
  /\ FlattenSeq(seqs) = f[Len(seqs)]

LEMMA FlattenSeqSteps ==
  ASSUME NEW V, NEW seqs \in Seq(Seq(V))
  PROVE  \E f : FlattenedBy(f, V, seqs)
<1>. DEFINE n == Len(seqs)
            Step(g) == [i \in 1 .. n |-> IF i = 1 THEN seqs[i] ELSE g[i - 1] \o seqs[i]]
            flatten[i \in 1 .. n] == IF i = 1 THEN seqs[i] ELSE flatten[i - 1] \o seqs[i]
            G == [i \in 1 .. n |-> [v \in Seq(V) |-> v \o seqs[i]]]
<1>0. n \in Nat /\ << >> \in Seq(V)
  OBVIOUS
<1>1. G \in [1 .. n -> [Seq(V) -> Seq(V)]]
  <2>1. \A i \in 1 .. n : seqs[i] \in Seq(V)
    OBVIOUS
  <2>2. \A v, w \in Seq(V) : v \o w \in Seq(V)
    OBVIOUS
  <2>. QED  BY <2>1, <2>2, Zenon
<1>2. PICK f : Iterates(f, n, Seq(V), << >>, G)
  <2>. HIDE DEF G, n, flatten
  <2>. QED  BY <1>0, <1>1, RecursionExists, Zenon
<1>3. f \in [0 .. n -> Seq(V)] /\ f[0] = << >>
  BY <1>2, Zenon DEF Iterates
<1>4. \A i \in 1 .. n : f[i] = f[i - 1] \o seqs[i]
  <2>. SUFFICES ASSUME NEW i \in 1 .. n PROVE f[i] = f[i - 1] \o seqs[i]
    OBVIOUS
  <2>1. f[i] = G[i][f[i - 1]]
    BY <1>2, Zenon DEF Iterates
  <2>2. f[i - 1] \in Seq(V)
    <3>1. i - 1 \in 0 .. n
      BY <1>0
    <3>. QED  BY <1>3, <3>1, Zenon
  <2>. QED  BY <2>1, <2>2, Zenon
<1>. HIDE DEF G
<1>5. CASE n = 0
  <2>1. seqs = << >> /\ FlattenSeq(seqs) = seqs
    BY <1>5 DEF FlattenSeq
  <2>. QED  BY <1>3, <1>4, <1>5, <2>1, Zenon DEF FlattenedBy
<1>6. CASE n /= 0
  <2>. DEFINE h == [i \in 1 .. n |-> f[i]]
  <2>1. f[1] = seqs[1]
    <3>1. 1 \in 1 .. n /\ 1 - 1 = 0 /\ seqs[1] \in Seq(V)
      BY <1>0, <1>6
    <3>2. f[1] = << >> \o seqs[1]
      BY <1>3, <1>4, <3>1, Zenon
    <3>3. << >> \o seqs[1] = seqs[1]
      BY <3>1, ConcatEmptySeq, Zenon
    <3>. QED  BY <3>2, <3>3
  <2>2. h = Step(h)
    <3>1. h = [i \in 1 .. n |-> h[i]]
      BY Zenon
    <3>2. Step(h) = [i \in 1 .. n |-> Step(h)[i]]
      <4>. HIDE DEF h
      <4>. QED  BY Zenon
    <3>3. \A i \in 1 .. n : h[i] = Step(h)[i]
      <4>. SUFFICES ASSUME NEW i \in 1 .. n PROVE h[i] = Step(h)[i]
        OBVIOUS
      <4>1. CASE i = 1
        BY <2>1, <4>1, Zenon
      <4>2. CASE i /= 1
        <5>1. i - 1 \in 1 .. n
          BY <4>2, <1>0
        <5>. QED  BY <1>4, <4>2, <5>1, Zenon
      <4>. QED  BY <4>1, <4>2
    <3>. HIDE DEF h, Step, flatten, n
    <3>. QED  BY <3>1, <3>2, <3>3, SameFunction, Zenon
  <2>3. flatten = Step(flatten)
    BY <2>2
  <2>4. FlattenSeq(seqs) = flatten[n]
    BY <1>6 DEF FlattenSeq
  <2>. HIDE DEF flatten, n, h
  <2>. DEFINE t == [i \in 0 .. n |-> IF i = 0 THEN f[0] ELSE flatten[i]]
  <2>5. 0 \in 0 .. n /\ \A i \in 1 .. n : i \in 0 .. n /\ i /= 0 /\ i - 1 \in 0 .. n
    BY <1>0
  <2>6. t[0] = f[0]
    BY <2>5, Zenon
  <2>7. \A i \in 1 .. n : t[i - 1] = f[i - 1] => t[i] = f[i]
    <3>. SUFFICES ASSUME NEW i \in 1 .. n, t[i - 1] = f[i - 1] PROVE t[i] = f[i]
      OBVIOUS
    <3>1. t[i] = flatten[i]
      BY <2>5, Zenon
    <3>2. CASE i = 1
      BY <2>1, <2>3, <3>1, <3>2, Zenon
    <3>3. CASE i /= 1
      <4>1. i - 1 \in 1 .. n
        BY <3>3, <1>0
      <4>2. t[i - 1] = flatten[i - 1]
        BY <2>5, <4>1, Zenon
      <4>3. flatten[i] = flatten[i - 1] \o seqs[i]
        BY <2>3, <3>3, Zenon
      <4>. QED  BY <1>4, <3>1, <4>2, <4>3, Zenon
    <3>. QED  BY <3>2, <3>3
  <2>. HIDE DEF t
  <2>8. t[n] = f[n]
    BY <1>0, <2>6, <2>7, SameIteration
  <2>9. n \in 1 .. n
    BY <1>0, <1>6
  <2>10. t[n] = flatten[n]
    BY <2>5, <2>9, Zenon DEF t
  <2>. QED  BY <1>3, <1>4, <2>4, <2>8, <2>10, Zenon DEF FlattenedBy, n
<1>. QED  BY <1>5, <1>6

(* A class path is searched entry by entry. *)
LEMMA ClassPathRanked ==
  ASSUME ListingOK, NEW es \in Seq(PathEntries)
  PROVE  CreateClassReader(es) \in Seq(Readers) /\ Ranked(CreateClassReader(es), es)
<1>. DEFINE n == Len(es)  seqs == [i \in DOMAIN es |-> EntryReaders(es[i])]
<1>0. n \in Nat /\ DOMAIN es = 1 .. n
  OBVIOUS
<1>1. \A i \in 1 .. n : /\ es[i] \in PathEntries
                        /\ EntryReaders(es[i]) \in Seq(Readers)
                        /\ Ranked(EntryReaders(es[i]), <<es[i]>>)
  <2>1. \A i \in 1 .. n : es[i] \in PathEntries
    BY <1>0, ElementsIn, Zenon
  <2>. QED  BY <2>1, RankedOne, Zenon
<1>2. seqs \in Seq(Seq(Readers)) /\ Len(seqs) = n /\ \A i \in 1 .. n : seqs[i] = EntryReaders(es[i])
  <2>. HIDE DEF n
  <2>1. seqs = [i \in 1 .. n |-> EntryReaders(es[i])]
    BY <1>0, Zenon
  <2>. HIDE DEF seqs
  <2>2. seqs \in [1 .. n -> Seq(Readers)] /\ \A i \in 1 .. n : seqs[i] = EntryReaders(es[i])
    BY <1>1, <2>1, Zenon
  <2>. QED  BY <1>0, <2>2
<1>. HIDE DEF seqs, n
<1>3. PICK f : FlattenedBy(f, Readers, seqs)
  BY <1>2, FlattenSeqSteps, Zenon
<1>. DEFINE S == {i \in 0 .. n : Ranked(f[i], SubSeq(es, 1, i))}
<1>4. 0 \in S
  <2>1. SubSeq(es, 1, 0) = << >> /\ 0 \in 0 .. n
    BY <1>0, SubSeqEmpty
  <2>2. f[0] = << >>
    BY <1>3, Zenon DEF FlattenedBy
  <2>. QED  BY <2>1, <2>2, RankedEmpty, Zenon
<1>5. \A i \in 0 .. n - 1 : i \in S => i + 1 \in S
  <2>. SUFFICES ASSUME NEW i \in 0 .. n - 1, i \in S PROVE i + 1 \in S
    OBVIOUS
  <2>1. i + 1 \in 1 .. n /\ (i + 1) - 1 = i /\ i \in 0 .. n /\ i + 1 \in 0 .. n /\ 1 \in 1 .. n
    BY <1>0
  <2>2. f[i] \in Seq(Readers) /\ f[i + 1] = f[i] \o EntryReaders(es[i + 1])
    BY <1>2, <1>3, <2>1, Zenon DEF FlattenedBy
  <2>3. SubSeq(es, 1, i + 1) = SubSeq(es, 1, i) \o <<es[i + 1]>>
    BY <2>1, SubSeqRecursiveSecond, Zenon DEF n
  <2>4. SubSeq(es, 1, i) \in Seq(PathEntries) /\ <<es[i + 1]>> \in Seq(PathEntries)
    <3>1. es[i + 1] \in PathEntries
      BY <1>1, <2>1, Zenon
    <3>2. <<es[i + 1]>> \in Seq(PathEntries)
      BY <3>1, OneElement, Zenon
    <3>3. SubSeq(es, 1, i) \in Seq(PathEntries)
      <4>. HIDE DEF S
      <4>. QED  BY <1>0, <2>1 DEF n
    <3>. QED  BY <3>2, <3>3
  <2>5. Ranked(f[i], SubSeq(es, 1, i))
    BY Zenon
  <2>6. Ranked(f[i] \o EntryReaders(es[i + 1]), SubSeq(es, 1, i) \o <<es[i + 1]>>)
    BY <1>1, <2>1, <2>2, <2>4, <2>5, RankedConcat, Zenon
  <2>. QED  BY <2>1, <2>2, <2>3, <2>6, Zenon
<1>6. n \in S
  <2>. HIDE DEF S
  <2>1. 0 .. n \subseteq S
    BY <1>0, <1>4, <1>5, Induction
  <2>. QED  BY <1>0, <2>1
<1>7. SubSeq(es, 1, n) = es
  BY SubSeqFull, Zenon DEF n
<1>8. CreateClassReader(es) = f[n] /\ f[n] \in Seq(Readers)
  <2>1. CreateClassReader(es) = FlattenSeq(seqs)
    BY DEF CreateClassReader, seqs
  <2>2. n \in 0 .. n
    BY <1>0
  <2>. QED  BY <1>2, <1>3, <2>1, <2>2, Zenon DEF FlattenedBy
<1>. QED  BY <1>6, <1>7, <1>8, Zenon

-----------------------------------------------------------------------------
(* The command line, one token at a time *)

Texts == DOMAIN ClassPaths
Tokens == [kind : TokenKinds, value : Texts]
Commands == [cp : Texts \cup {""}, jre : Texts \cup {""}, version : BOOLEAN, help : BOOLEAN,
             words : Seq(Texts), wants : {"", "cp", "jre", "memory"}, ended : BOOLEAN]

LEMMA NoCommandTyped == NoCommand \in Commands
<1>1. << >> \in Seq(Texts)
  OBVIOUS
<1>. QED  BY <1>1 DEF NoCommand, Commands

LEMMA TakenTyped ==
  ASSUME NEW cmd \in Commands, NEW token \in Tokens
  PROVE  Taken(cmd, token) \in Commands
<1>1. token.kind \in TokenKinds /\ token.value \in Texts
  BY DEF Tokens
<1>. HIDE DEF Texts
<1>2. CASE cmd.wants = "cp"
  BY <1>1, <1>2 DEF Taken, Commands
<1>3. CASE cmd.wants = "jre"
  BY <1>1, <1>3 DEF Taken, Commands
<1>4. CASE cmd.wants = "memory"
  BY <1>1, <1>4 DEF Taken, Commands
<1>5. CASE cmd.wants = "" /\ (cmd.ended \/ token.kind = "word")
  <2>1. Append(cmd.words, token.value) \in Seq(Texts)
    <3>1. cmd.words \in Seq(Texts)
      BY DEF Commands
    <3>. QED  BY <1>1, <3>1, AppendProperties, Zenon
  <2>2. Taken(cmd, token) = [cmd EXCEPT !.words = Append(cmd.words, token.value)]
    BY <1>5 DEF Taken
  <2>. QED  BY <2>1, <2>2 DEF Commands
<1>6. CASE cmd.wants = "" /\ ~ cmd.ended /\ token.kind /= "word"
  BY <1>1, <1>6 DEF Taken, Commands, TokenKinds
<1>. QED  BY <1>2, <1>3, <1>4, <1>5, <1>6 DEF Commands

ScannedBy(f, tokens) ==
  /\ f \in [0 .. Len(tokens) -> Commands]
  /\ f[0] = NoCommand
  /\ \A i \in 1 .. Len(tokens) : f[i] = Taken(f[i - 1], tokens[i])
  /\ Parsed(tokens) = IF f[Len(tokens)].wants /= "" THEN [f[Len(tokens)] EXCEPT !.help = TRUE]
                      ELSE f[Len(tokens)]

LEMMA ParsedSteps ==
  ASSUME NEW tokens \in Seq(Tokens)
  PROVE  \E f : ScannedBy(f, tokens)
<1>. DEFINE n == Len(tokens)
            scan[i \in 0 .. n] == IF i = 0 THEN NoCommand ELSE Taken(scan[i - 1], tokens[i])
            Step(g) == [i \in 0 .. n |-> IF i = 0 THEN NoCommand ELSE Taken(g[i - 1], tokens[i])]
            G == [i \in 1 .. n |-> [c \in Commands |-> Taken(c, tokens[i])]]
<1>0. n \in Nat /\ DOMAIN tokens = 1 .. n
  OBVIOUS
<1>1. G \in [1 .. n -> [Commands -> Commands]]
  <2>1. \A i \in 1 .. n : tokens[i] \in Tokens
    BY <1>0, ElementsIn, Zenon
  <2>2. \A i \in 1 .. n : \A c \in Commands : Taken(c, tokens[i]) \in Commands
    BY <2>1, TakenTyped, Zenon
  <2>. QED  BY <2>2, Zenon
<1>2. PICK f : Iterates(f, n, Commands, NoCommand, G)
  <2>. HIDE DEF G, n, scan
  <2>. QED  BY <1>0, <1>1, NoCommandTyped, RecursionExists, Zenon
<1>3. f \in [0 .. n -> Commands] /\ f[0] = NoCommand
  BY <1>2, Zenon DEF Iterates
<1>4. \A i \in 1 .. n : f[i] = Taken(f[i - 1], tokens[i])
  <2>. SUFFICES ASSUME NEW i \in 1 .. n PROVE f[i] = Taken(f[i - 1], tokens[i])
    OBVIOUS
  <2>1. f[i] = G[i][f[i - 1]]
    BY <1>2, Zenon DEF Iterates
  <2>2. f[i - 1] \in Commands
    <3>1. i - 1 \in 0 .. n
      BY <1>0
    <3>. QED  BY <1>3, <3>1, Zenon
  <2>. QED  BY <2>1, <2>2, Zenon
<1>. HIDE DEF G
<1>5. f = Step(f)
  <2>1. f = [i \in 0 .. n |-> f[i]]
    BY <1>3, Zenon
  <2>2. Step(f) = [i \in 0 .. n |-> Step(f)[i]]
    BY Zenon
  <2>3. \A i \in 0 .. n : f[i] = Step(f)[i]
    <3>. SUFFICES ASSUME NEW i \in 0 .. n PROVE f[i] = Step(f)[i]
      OBVIOUS
    <3>1. CASE i = 0
      BY <1>3, <3>1, Zenon
    <3>2. CASE i /= 0
      <4>1. i \in 1 .. n
        BY <1>0, <3>2
      <4>. QED  BY <1>4, <3>2, <4>1, Zenon
    <3>. QED  BY <3>1, <3>2
  <2>. HIDE DEF Step, scan, n
  <2>. QED  BY <2>1, <2>2, <2>3, SameFunction, Zenon
<1>6. scan = Step(scan)
  BY <1>5
<1>7. Parsed(tokens) = IF scan[n].wants /= "" THEN [scan[n] EXCEPT !.help = TRUE] ELSE scan[n]
  BY DEF Parsed
<1>. HIDE DEF scan, n
<1>8. 0 \in 0 .. n /\ \A i \in 1 .. n : i \in 0 .. n /\ i /= 0
  BY <1>0
<1>9. scan[0] = f[0]
  BY <1>3, <1>6, <1>8, Zenon
<1>10. \A i \in 1 .. n : scan[i - 1] = f[i - 1] => scan[i] = f[i]
  <2>. SUFFICES ASSUME NEW i \in 1 .. n, scan[i - 1] = f[i - 1] PROVE scan[i] = f[i]
    OBVIOUS
  <2>1. scan[i] = Taken(scan[i - 1], tokens[i])
    BY <1>6, <1>8, Zenon
  <2>. QED  BY <1>4, <2>1, Zenon
<1>11. scan[n] = f[n]
  BY <1>0, <1>9, <1>10, SameIteration
<1>12. ScannedBy(f, tokens)
  BY <1>3, <1>4, <1>7, <1>11, Zenon DEF ScannedBy, n
<1>. QED  BY <1>12, Zenon

LEMMA ParsedTyped ==
  ASSUME NEW tokens \in Seq(Tokens)
  PROVE  Parsed(tokens) \in Commands
<1>1. PICK f : ScannedBy(f, tokens)
  BY ParsedSteps
<1>2. Len(tokens) \in 0 .. Len(tokens)
  OBVIOUS
<1>3. f[Len(tokens)] \in Commands
  BY <1>1, <1>2, Zenon DEF ScannedBy
<1>4. \A c \in Commands : [c EXCEPT !.help = TRUE] \in Commands
  BY DEF Commands
<1>. QED  BY <1>1, <1>3, <1>4, Zenon DEF ScannedBy

-----------------------------------------------------------------------------
(* The search *)

(* What ParseClassPaths makes the readers *)
Built == [boot |-> Wildcard(system.lib[GetJreDir]), ext |-> Wildcard(system.ext[GetJreDir]),
          app |-> CreateClassReader(AppEntries)]

(* The readers in the order in which they are asked *)
Order ==
  IF query.via = "parser" THEN readers.boot \o readers.ext \o readers.app ELSE readers[query.via]

Asks == query.via = "parser" \/ query.suffix

(* The paths of the file system are paths. *)
PathsOK ==
  /\ ListingOK
  /\ \A jre \in (system.jres \cup {system.javaHome}) \ {""} :
       system.lib[jre] \in STRING /\ system.ext[jre] \in STRING

(* The search has passed d readers that do not hold the class, and stands  *)
(* where its outcome says.                                                 *)
Passed(d) ==
  /\ d \in 0 .. Len(Order)
  /\ left = SubSeq(Order, d + 1, Len(Order))
  /\ \A i \in 1 .. d : ~ Holds(Order[i])
  /\ status = "found" => left /= << >> /\ answer.reader = Asked /\ Holds(Asked)
  /\ status \in {"thrown", "crashed"} => left /= << >> /\ Breaks(Asked)
  /\ status \in {"missing", "fatal"} => left = << >>

SearchInv ==
  /\ line \in CommandLines /\ command \in Commands /\ query.via \in Vias
  /\ changed = "not" =>
       /\ PathsOK
       /\ GetJreDir /= "" =>
            /\ status \in {"ready", "reading", "found", "thrown", "crashed", "missing", "fatal"} => readers = Built
            /\ Asks /\ status \in {"reading", "found", "thrown", "crashed", "missing", "fatal"} => \E d : Passed(d)

LEMMA SystemPaths ==
  ASSUME system \in Systems
  PROVE  PathsOK
BY SystemsAssumption, Zenon DEF PathsOK, ListingOK

LEMMA JrePaths ==
  ASSUME PathsOK, GetJreDir /= ""
  PROVE  system.lib[GetJreDir] \in STRING /\ system.ext[GetJreDir] \in STRING
<1>1. GetJreDir \in (system.jres \cup {system.javaHome}) \ {""}
  BY DEF GetJreDir
<1>. HIDE DEF GetJreDir
<1>. QED  BY <1>1, Zenon DEF PathsOK

LEMMA EntriesTyped ==
  ASSUME command \in Commands
  PROVE  AppEntries \in Seq(PathEntries)
<1>1. CASE command.cp = ""
  <2>1. DirReader(WorkingDir) \in PathEntries
    BY ClassPathsAssumption DEF DirReader, PathEntries, EntryKinds
  <2>2. AppEntries = <<DirReader(WorkingDir)>>
    BY <1>1 DEF AppEntries
  <2>. QED  BY <2>1, <2>2, OneElement, Zenon
<1>2. CASE command.cp /= ""
  <2>1. command.cp \in Texts
    BY <1>2 DEF Commands
  <2>2. AppEntries = ClassPaths[command.cp]
    BY <1>2 DEF AppEntries
  <2>. QED  BY <2>1, <2>2, ClassPathsAssumption, Zenon DEF Texts, PathEntries
<1>. QED  BY <1>1, <1>2

(* The readers stand in the order of the class path's entries. *)
LEMMA OrderRanked ==
  ASSUME PathsOK, command \in Commands, query.via \in Vias,
         GetJreDir /= "", readers = Built
  PROVE  /\ Order \in Seq(Readers) /\ Entries \in Seq(PathEntries)
         /\ Ranked(Order, Entries)
<1>. DEFINE star(path) == [kind |-> "star", path |-> path]
            b == system.lib[GetJreDir]  x == system.ext[GetJreDir]
<1>1. ListingOK
  BY DEF PathsOK
<1>2. b \in STRING /\ x \in STRING
  BY JrePaths
<1>. HIDE DEF b, x
<1>3. \A path \in STRING : /\ star(path) \in PathEntries
                           /\ EntryReaders(star(path)) = Wildcard(path)
  BY DEF PathEntries, EntryKinds, EntryReaders
<1>4. /\ Wildcard(b) \in Seq(Readers) /\ Ranked(Wildcard(b), <<star(b)>>)
      /\ Wildcard(x) \in Seq(Readers) /\ Ranked(Wildcard(x), <<star(x)>>)
  <2>. HIDE DEF star
  <2>. QED  BY <1>1, <1>2, <1>3, RankedOne, Zenon
<1>5. AppEntries \in Seq(PathEntries)
  BY EntriesTyped
<1>6. /\ CreateClassReader(AppEntries) \in Seq(Readers)
      /\ Ranked(CreateClassReader(AppEntries), AppEntries)
  <2>. DEFINE es == AppEntries
  <2>. HIDE DEF es
  <2>1. es \in Seq(PathEntries)
    BY <1>5 DEF es
  <2>2. CreateClassReader(es) \in Seq(Readers) /\ Ranked(CreateClassReader(es), es)
    BY <1>1, <2>1, ClassPathRanked, Zenon
  <2>. QED  BY <2>2 DEF es
<1>7. <<star(b)>> \in Seq(PathEntries) /\ <<star(x)>> \in Seq(PathEntries)
  <2>. HIDE DEF star
  <2>. QED  BY <1>2, <1>3, OneElement, Zenon
<1>8. /\ readers["boot"] = Wildcard(b) /\ readers["ext"] = Wildcard(x)
      /\ readers["app"] = CreateClassReader(AppEntries)
  BY DEF Built, b, x
<1>. DEFINE app == CreateClassReader(AppEntries)  boot == Wildcard(b)  ext == Wildcard(x)
<1>9. CASE query.via = "boot"
  <2>1. Order = Wildcard(b) /\ Entries = <<star(b)>>
    BY <1>8, <1>9 DEF Order, Entries, b
  <2>. HIDE DEF star
  <2>. QED  BY <1>4, <1>7, <2>1, Zenon
<1>10. CASE query.via = "ext"
  <2>1. Order = Wildcard(x) /\ Entries = <<star(x)>>
    BY <1>8, <1>10 DEF Order, Entries, x
  <2>. HIDE DEF star
  <2>. QED  BY <1>4, <1>7, <2>1, Zenon
<1>11. CASE query.via = "app"
  <2>1. Order = CreateClassReader(AppEntries) /\ Entries = AppEntries
    BY <1>8, <1>11 DEF Order, Entries
  <2>. QED  BY <1>5, <1>6, <2>1, Zenon
<1>12. CASE query.via = "parser"
  <2>1. Order = boot \o ext \o app
    BY <1>8, <1>12 DEF Order
  <2>2. Entries = <<star(b)>> \o <<star(x)>> \o AppEntries
    BY <1>12 DEF Entries, b, x
  <2>. DEFINE e1 == <<star(b)>>  e2 == <<star(x)>>  e3 == AppEntries
  <2>. HIDE DEF star, e1, e2, e3, app, boot, ext
  <2>3. /\ boot \in Seq(Readers) /\ ext \in Seq(Readers) /\ app \in Seq(Readers)
        /\ e1 \in Seq(PathEntries) /\ e2 \in Seq(PathEntries) /\ e3 \in Seq(PathEntries)
        /\ Ranked(boot, e1) /\ Ranked(ext, e2) /\ Ranked(app, e3)
    BY <1>4, <1>5, <1>6, <1>7, Zenon DEF e1, e2, e3, app, boot, ext
  <2>4. boot \o ext \in Seq(Readers) /\ e1 \o e2 \in Seq(PathEntries)
    BY <2>3, ConcatProperties, Zenon
  <2>5. Ranked(boot \o ext, e1 \o e2)
    BY <2>3, RankedConcat, Zenon
  <2>6. Ranked((boot \o ext) \o app, (e1 \o e2) \o e3)
    BY <2>3, <2>4, <2>5, RankedConcat, Zenon
  <2>7. (boot \o ext) \o app \in Seq(Readers) /\ (e1 \o e2) \o e3 \in Seq(PathEntries)
    BY <2>3, <2>4, ConcatProperties, Zenon
  <2>. QED  BY <2>1, <2>2, <2>6, <2>7, Zenon DEF e1, e2, e3
<1>. QED  BY <1>9, <1>10, <1>11, <1>12 DEF Vias

(* What Holds says, of a file system *)
HoldsIn(fs, class, r) ==
  IF r.kind = "dir"
  THEN LET f == <<r.path, class>> IN
       f \in DOMAIN fs.files /\ (f \in fs.links => LinkSize <= fs.files[f])
  ELSE /\ r.path \in DOMAIN fs.archives /\ class \in fs.archives[r.path].classes
       /\ ~ (/\ r.kind = "zip"
             /\ r.path \in DOMAIN fs.archives /\ class \in fs.archives[r.path].classes
             /\ class \in fs.archives[r.path].locked)
       /\ class \notin fs.archives[r.path].broken

(* A step that leaves the paths and what is held as they were *)
SamePaths ==
  /\ UNCHANGED <<command, query>>
  /\ /\ system'.listing = system.listing /\ system'.jres = system.jres
     /\ system'.javaHome = system.javaHome /\ system'.lib = system.lib /\ system'.ext = system.ext
  /\ \A r : HoldsIn(system', query.class, r) <=> HoldsIn(system, query.class, r)

LEMMA SameSystem ==
  ASSUME UNCHANGED <<system, command, query>>
  PROVE  SamePaths
BY Zenon DEF SamePaths

(* The readers and their order follow from the paths, the command and the  *)
(* query.                                                                  *)
LEMMA SameSearch ==
  ASSUME SamePaths
  PROVE  GetJreDir' = GetJreDir /\ Built' = Built /\ Asks' = Asks /\ (PathsOK => PathsOK')
<1>0. /\ UNCHANGED <<command, query>>
      /\ system'.listing = system.listing /\ system'.jres = system.jres
      /\ system'.javaHome = system.javaHome /\ system'.lib = system.lib /\ system'.ext = system.ext
  BY Zenon DEF SamePaths
<1>1. GetJreDir' = GetJreDir /\ AppEntries' = AppEntries /\ Asks' = Asks
  BY <1>0 DEF GetJreDir, AppEntries, Asks
<1>2. \A path : GetFiles(path)' = GetFiles(path)
  BY <1>0 DEF GetFiles
<1>3. \A path : Wildcard(path)' = Wildcard(path)
  BY <1>2 DEF Wildcard
<1>4. \A e : EntryReaders(e)' = EntryReaders(e)
  BY <1>3, Zenon DEF EntryReaders
<1>5. CreateClassReader(AppEntries)' = CreateClassReader(AppEntries)
  <2>. DEFINE es == AppEntries
  <2>1. \A i : EntryReaders(es[i])' = EntryReaders(es[i])
    <3>. SUFFICES ASSUME NEW i PROVE EntryReaders(es[i])' = EntryReaders(es[i])
      OBVIOUS
    <3>. QED  BY <1>1, <1>3, Zenon DEF EntryReaders
  <2>2. [i \in DOMAIN es |-> EntryReaders(es[i])]' = [i \in DOMAIN es |-> EntryReaders(es[i])]
    BY <1>1, <2>1, Zenon
  <2>. QED  BY <2>2, Zenon DEF CreateClassReader
<1>6. Built' = Built
  BY <1>0, <1>1, <1>3, <1>5 DEF Built
<1>7. PathsOK => PathsOK'
  BY <1>0, Zenon DEF PathsOK, ListingOK
<1>. QED  BY <1>1, <1>6, <1>7

LEMMA Advance ==
  ASSUME NEW V, NEW s \in Seq(V), NEW d \in 0 .. Len(s), NEW l,
         l = SubSeq(s, d + 1, Len(s)), l /= << >>
  PROVE  /\ d + 1 \in 0 .. Len(s)
         /\ l[1] = s[d + 1]
         /\ Tail(l) = SubSeq(s, (d + 1) + 1, Len(s))
<1>1. d < Len(s)
  OBVIOUS
<1>2. d + 1 \in 0 .. Len(s)
  BY <1>1
<1>3. l[1] = s[d + 1]
  BY <1>1
<1>4. Tail(l) = SubSeq(s, (d + 1) + 1, Len(s))
  BY <1>1
<1>. QED  BY <1>2, <1>3, <1>4

LEMMA AllPassed ==
  ASSUME NEW V, NEW s \in Seq(V), NEW d \in 0 .. Len(s), NEW l,
         l = SubSeq(s, d + 1, Len(s)), Len(l) = 0
  PROVE  d = Len(s)
OBVIOUS

LEMMA SeqDomain ==
  ASSUME NEW V, NEW s \in Seq(V)
  PROVE  Len(s) \in Nat /\ DOMAIN s = 1 .. Len(s)
OBVIOUS

LEMMA UpTo ==
  ASSUME NEW n \in Nat, NEW d \in 0 .. n
  PROVE  d \in Nat /\ (d + 1 \in 0 .. n => d + 1 \in 1 .. n)
OBVIOUS

(* A reader is passed. *)
LEMMA PassOne ==
  ASSUME NEW d, Passed(d), Order \in Seq(Readers), left /= << >>, ~ Holds(Asked),
         SamePaths, UNCHANGED readers, NextReader, status' = "reading"
  PROVE  Passed(d + 1)'
<1>1. Order' = Order
  BY DEF Order, SamePaths
<1>2. /\ d \in 0 .. Len(Order) /\ left = SubSeq(Order, d + 1, Len(Order))
      /\ \A i \in 1 .. d : ~ Holds(Order[i])
  BY Zenon DEF Passed
<1>. DEFINE s == Order
<1>. HIDE DEF s
<1>3. /\ d + 1 \in 0 .. Len(s) /\ left[1] = s[d + 1]
      /\ Tail(left) = SubSeq(s, (d + 1) + 1, Len(s))
  <2>1. s \in Seq(Readers) /\ d \in 0 .. Len(s) /\ left = SubSeq(s, d + 1, Len(s))
    BY <1>2 DEF s
  <2>. QED  BY <2>1, Advance
<1>4. \A i \in 1 .. d + 1 : ~ Holds(s[i])
  <2>. SUFFICES ASSUME NEW i \in 1 .. d + 1 PROVE ~ Holds(s[i])
    OBVIOUS
  <2>1. i \in 1 .. d \/ i = d + 1
    BY <1>2
  <2>. QED  BY <1>2, <1>3, <2>1, Zenon DEF s, Asked
<1>5. s' = s
  BY <1>1 DEF s
<1>6. \A i \in 1 .. d + 1 : ~ Holds(s[i])'
  <2>. SUFFICES ASSUME NEW i \in 1 .. d + 1 PROVE ~ Holds(s[i])'
    OBVIOUS
  <2>1. query' = query /\ (HoldsIn(system', query.class, s[i]) <=> HoldsIn(system, query.class, s[i]))
    BY Zenon DEF SamePaths
  <2>2. Holds(s[i]) <=> HoldsIn(system, query.class, s[i])
    BY Zenon DEF Holds, HoldsIn, Listed, Locked
  <2>3. Holds(s[i])' <=> HoldsIn(system', query'.class, s[i])
    BY <1>5, Zenon DEF Holds, HoldsIn, Listed, Locked
  <2>. QED  BY <1>4, <2>1, <2>2, <2>3, Zenon
<1>. QED  BY <1>3, <1>5, <1>6, Zenon DEF Passed, NextReader, s

(* The search ends or goes on where it stands. *)
LEMMA StandStill ==
  ASSUME NEW d, Passed(d), UNCHANGED <<system, command, readers, query, left>>,
         status' = "found" => left /= << >> /\ answer'.reader = Asked /\ Holds(Asked),
         status' = "thrown" => left /= << >> /\ Unopenable(Asked),
         status' = "crashed" => left /= << >> /\ Locked(Asked),
         status' \in {"missing", "fatal"} => left = << >>
  PROVE  Passed(d)'
<1>. DEFINE s == Order
<1>1. s' = s
  BY DEF Order
<1>2. /\ d \in 0 .. Len(s) /\ left = SubSeq(s, d + 1, Len(s))
      /\ \A i \in 1 .. d : ~ Holds(s[i])
  BY Zenon DEF Passed
<1>. HIDE DEF s
<1>3. \A i \in 1 .. d : ~ Holds(s[i])'
  <2>. SUFFICES ASSUME NEW i \in 1 .. d PROVE ~ Holds(s[i])'
    OBVIOUS
  <2>1. Holds(s[i])' = Holds(s[i])
    BY <1>1 DEF Holds, Listed, Locked
  <2>. QED  BY <1>2, <2>1
<1>4. /\ Asked' = Asked /\ Holds(Asked)' = Holds(Asked)
      /\ Unopenable(Asked)' = Unopenable(Asked) /\ Locked(Asked)' = Locked(Asked)
  BY DEF Asked, Holds, Listed, Locked, Unopenable
<1>5. status' \in {"thrown", "crashed"} => left /= << >> /\ Breaks(Asked)'
  BY <1>4, Zenon DEF Breaks
<1>. QED  BY <1>1, <1>2, <1>3, <1>4, <1>5, Zenon DEF Passed, s

(* What a directory does to the search *)
LEMMA DirectoryAsked ==
  ASSUME ReadInv, changed = "not", ReadFile, NEW d, Passed(d), Order \in Seq(Readers)
  PROVE  \E e : Passed(e)'
<1>1. /\ status = "reading" /\ left /= << >> /\ Asked.kind = "dir" /\ size /= None
      /\ UNCHANGED <<system, command, readers, query>>
  BY DEF ReadFile, Asking
<1>8. SamePaths
  BY <1>1, SameSystem
<1>2. size = LstatOf(File) /\ size \in Int
  BY <1>1 DEF ReadInv, SizeOK
<1>3. Holds(Asked) <=> /\ File \in DOMAIN system.files
                       /\ File \in system.links => LinkSize <= system.files[File]
  BY <1>1 DEF Holds, File
<1>4. CASE File \notin DOMAIN system.files
  <2>1. NextReader /\ status' = "reading"
    BY <1>1, <1>4 DEF ReadFile
  <2>. QED  BY <1>1, <1>3, <1>4, <1>8, <2>1, PassOne
<1>5. CASE File \in DOMAIN system.files /\ size = Garbage
  <2>1. LstatOf(File) \in Nat
    BY <1>5, LstatGivesInt DEF ReadInv
  <2>. QED  BY <1>2, <1>5, <2>1 DEF Garbage
<1>6. CASE File \in DOMAIN system.files /\ size /= Garbage /\ size > system.files[File]
  <2>1. NextReader /\ status' = "reading"
    BY <1>1, <1>6 DEF ReadFile
  <2>2. system.files[File] \in Nat
    BY <1>6 DEF ReadInv, SystemOK
  <2>3. ~ Holds(Asked)
    BY <1>2, <1>3, <1>6, <2>2, SizesAreNat DEF LstatOf
  <2>. QED  BY <1>1, <1>8, <2>1, <2>3, PassOne
<1>7. CASE File \in DOMAIN system.files /\ size /= Garbage /\ ~ (size > system.files[File])
  <2>1. status' = "found" /\ answer'.reader = Asked /\ UNCHANGED left
    BY <1>7 DEF ReadFile, Found
  <2>2. system.files[File] \in Nat
    BY <1>7 DEF ReadInv, SystemOK
  <2>3. Holds(Asked)
    BY <1>2, <1>3, <1>7, <2>2, SizesAreNat DEF LstatOf
  <2>. QED  BY <1>1, <2>1, <2>3, StandStill
<1>. QED  BY <1>4, <1>5, <1>6, <1>7

(* What an archive that opens does to the search *)
LEMMA ArchiveAsked ==
  ASSUME ReadArchive, NEW d, Passed(d), Order \in Seq(Readers)
  PROVE  \E e : Passed(e)'
<1>1. /\ status = "reading" /\ left /= << >> /\ Asked.kind = "zip"
      /\ Asked.path \in DOMAIN system.archives
      /\ UNCHANGED <<system, command, readers, query>>
  BY DEF ReadArchive, Asking
<1>. DEFINE archive == system.archives[Asked.path]
<1>2. /\ Locked(Asked) <=> query.class \in archive.classes \cap archive.locked
      /\ Holds(Asked) <=> query.class \in archive.classes \ archive.broken /\ ~ Locked(Asked)
  BY <1>1 DEF Holds, Locked, Listed
<1>3. CASE query.class \in archive.classes \cap archive.locked
  <2>1. status' = "crashed" /\ UNCHANGED left
    BY <1>3 DEF ReadArchive
  <2>. QED  BY <1>1, <1>2, <1>3, <2>1, StandStill
<1>4. CASE query.class \notin archive.classes \cap archive.locked /\ query.class \in archive.classes \ archive.broken
  <2>1. status' = "found" /\ answer'.reader = Asked /\ UNCHANGED left
    BY <1>4 DEF ReadArchive, Found
  <2>. QED  BY <1>1, <1>2, <1>4, <2>1, StandStill
<1>5. CASE query.class \notin archive.classes \cap archive.locked /\ query.class \notin archive.classes \ archive.broken
  <2>1. NextReader /\ status' = "reading"
    BY <1>1, <1>5 DEF ReadArchive
  <2>2. SamePaths
    BY <1>1, SameSystem
  <2>. QED  BY <1>1, <1>2, <1>5, <2>1, <2>2, PassOne
<1>. QED  BY <1>3, <1>4, <1>5

(* An archive that the search makes holds nothing, as before it was made. *)
LEMMA MissingMade ==
  ASSUME SystemOK, OpenMissing
  PROVE  SamePaths
<1>1. CASE UNCHANGED system
  BY <1>1, SameSystem DEF OpenMissing
<1>2. CASE system' /= system
  <2>. DEFINE p == Asked.path
              made == [a \in DOMAIN system.archives \cup {p} |->
                         IF a = p THEN EmptyArchive ELSE system.archives[a]]
  <2>1. p \notin DOMAIN system.archives /\ system' = [system EXCEPT !.archives = made]
    BY <1>2 DEF OpenMissing
  <2>2. /\ DOMAIN made = DOMAIN system.archives \cup {p} /\ made[p] = EmptyArchive
        /\ \A a \in DOMAIN system.archives : a /= p => made[a] = system.archives[a]
    OBVIOUS
  <2>. HIDE DEF made, p
  <2>3. /\ system'.archives = made /\ system'.files = system.files /\ system'.links = system.links
        /\ system'.listing = system.listing /\ system'.jres = system.jres
        /\ system'.javaHome = system.javaHome /\ system'.lib = system.lib /\ system'.ext = system.ext
    BY <2>1 DEF SystemOK, Parts
  <2>4. EmptyArchive.classes = {}
    BY DEF EmptyArchive
  <2>5. ASSUME NEW r
        PROVE  HoldsIn(system', query.class, r) <=> HoldsIn(system, query.class, r)
    <3>1. CASE r.kind = "dir"
      BY <2>3, <3>1, Zenon DEF HoldsIn
    <3>2. CASE r.kind /= "dir" /\ r.path = p
      <4>1. ~ HoldsIn(system, query.class, r)
        BY <2>1, <3>2, Zenon DEF HoldsIn
      <4>2. system'.archives[r.path].classes = {}
        BY <2>2, <2>3, <2>4, <3>2, Zenon
      <4>3. ~ HoldsIn(system', query.class, r)
        BY <3>2, <4>2, Zenon DEF HoldsIn
      <4>. QED  BY <4>1, <4>3
    <3>3. CASE r.kind /= "dir" /\ r.path /= p
      <4>1. r.path \in DOMAIN system'.archives <=> r.path \in DOMAIN system.archives
        BY <2>2, <2>3, <3>3, Zenon
      <4>2. r.path \in DOMAIN system.archives => system'.archives[r.path] = system.archives[r.path]
        BY <2>2, <2>3, <3>3, Zenon
      <4>. QED  BY <3>3, <4>1, <4>2, Zenon DEF HoldsIn
    <3>. QED  BY <3>1, <3>2, <3>3
  <2>6. UNCHANGED <<command, query>>
    BY DEF OpenMissing
  <2>. QED  BY <2>3, <2>5, <2>6, Zenon DEF SamePaths
<1>. QED  BY <1>1, <1>2

(* What an archive that does not open does to the search *)
LEMMA MissingAsked ==
  ASSUME SystemOK, OpenMissing, NEW d, Passed(d), Order \in Seq(Readers)
  PROVE  \E e : Passed(e)'
<1>1. /\ status = "reading" /\ left /= << >> /\ Asked.kind = "zip"
      /\ Asked.path \notin DOMAIN system.archives
      /\ UNCHANGED <<command, readers, query>>
  BY DEF OpenMissing, Asking
<1>2. CASE Asked.path \in system.makeable
  <2>1. NextReader /\ status' = "reading"
    BY <1>1, <1>2 DEF OpenMissing
  <2>2. ~ Holds(Asked)
    BY <1>1 DEF Holds, Listed
  <2>. QED  BY <1>1, <2>1, <2>2, MissingMade, PassOne
<1>3. CASE Asked.path \notin system.makeable
  <2>1. status' = "thrown" /\ UNCHANGED <<system, left>>
    BY <1>3 DEF OpenMissing
  <2>2. Unopenable(Asked)
    BY <1>1, <1>3 DEF Unopenable
  <2>. QED  BY <1>1, <2>1, <2>2, StandStill
<1>. QED  BY <1>2, <1>3

LEMMA LinesAreTokens ==
  ASSUME NEW l \in CommandLines
  PROVE  l \in Seq(Tokens)
BY LinesAssumption, Zenon DEF Tokens, Texts

(* One step of the search *)
LEMMA SearchGoesOn ==
  ASSUME SearchInv, status = "reading", SamePaths,
         UNCHANGED <<line, command, readers, query, changed>>,
         ASSUME changed = "not", Order \in Seq(Readers), NEW d, Passed(d)
         PROVE  \E e : Passed(e)'
  PROVE  SearchInv'
<1>1. GetJreDir' = GetJreDir /\ Built' = Built /\ Asks' = Asks /\ (PathsOK => PathsOK')
  BY SameSearch
<1>2. ASSUME changed = "not", GetJreDir /= ""
      PROVE  readers = Built /\ Order \in Seq(Readers)
  <2>1. readers = Built
    BY <1>2 DEF SearchInv
  <2>. QED  BY <1>2, <2>1, OrderRanked DEF SearchInv
<1>3. ASSUME changed = "not", GetJreDir /= "", Asks
      PROVE  \E e : Passed(e)'
  <2>1. PICK d : Passed(d)
    BY <1>3 DEF SearchInv
  <2>. QED  BY <1>2, <1>3, <2>1
<1>. QED  BY <1>1, <1>2, <1>3 DEF SearchInv

LEMMA SearchInvNext ==
  ASSUME ReadInv, SearchInv, [Next]_vars
  PROVE  SearchInv'
<1>1. CASE ParseCommand
  <2>1. command' \in Commands
    BY <1>1, LinesAreTokens, ParsedTyped DEF ParseCommand, SearchInv
  <2>2. status' \in {"printed", "paths"} /\ UNCHANGED <<line, system, query, changed>>
    BY <1>1 DEF ParseCommand
  <2>3. PathsOK => PathsOK'
    BY <2>2 DEF PathsOK, ListingOK
  <2>. QED  BY <2>1, <2>2, <2>3 DEF SearchInv
<1>2. CASE ParseClassPaths
  <2>1. UNCHANGED <<line, system, command, query, changed>>
    BY <1>2 DEF ParseClassPaths
  <2>2. GetJreDir' = GetJreDir /\ Built' = Built /\ (PathsOK => PathsOK')
    BY <2>1, SameSystem, SameSearch
  <2>3. CASE GetJreDir = ""
    BY <2>1, <2>2, <2>3 DEF SearchInv
  <2>4. CASE GetJreDir /= ""
    <3>1. status' = "ready" /\ readers' = Built
      BY <1>2, <2>4 DEF ParseClassPaths, Built
    <3>. QED  BY <2>1, <2>2, <2>4, <3>1 DEF SearchInv
  <2>. QED  BY <2>3, <2>4
<1>3. CASE ReadClass
  <2>1. status = "ready" /\ UNCHANGED <<line, system, command, readers, query, changed>>
    BY <1>3 DEF ReadClass
  <2>2. GetJreDir' = GetJreDir /\ Built' = Built /\ Asks' = Asks /\ Order' = Order
                                /\ (PathsOK => PathsOK')
    BY <2>1, SameSystem, SameSearch DEF Order
  <2>3. ASSUME changed = "not", GetJreDir /= "", Asks
        PROVE  Passed(0)'
    <3>1. Order \in Seq(Readers)
      BY <2>1, <2>3, OrderRanked DEF SearchInv
    <3>2. left' = Order /\ status' = "reading"
      BY <1>3, <2>3 DEF ReadClass, Asks, Order
    <3>. DEFINE s == Order
    <3>. HIDE DEF s
    <3>3. s = SubSeq(s, 0 + 1, Len(s)) /\ 0 \in 0 .. Len(s) /\ 1 .. 0 = {}
      BY <3>1 DEF s
    <3>. QED  BY <2>2, <3>2, <3>3 DEF Passed, s
  <2>4. status' \in {"reading", "missing"}
    BY <1>3 DEF ReadClass
  <2>. QED  BY <2>1, <2>2, <2>3, <2>4 DEF SearchInv
<1>4. CASE Lstat
  <2>1. UNCHANGED <<line, system, command, readers, query, left, changed, answer, status>>
    BY <1>4 DEF Lstat
  <2>2. status = "reading"
    BY <1>4 DEF Lstat, Asking
  <2>3. ASSUME NEW d, Passed(d) PROVE Passed(d)'
    BY <2>1, <2>2, <2>3, StandStill
  <2>. QED  BY <2>1, <2>2, <2>3, SameSystem, SearchGoesOn
<1>5. CASE ReadFile
  <2>1. status = "reading" /\ UNCHANGED <<line, system, command, readers, query, changed>>
    BY <1>5 DEF ReadFile, Asking
  <2>. QED  BY <1>5, <2>1, DirectoryAsked, SameSystem, SearchGoesOn
<1>6. CASE ReadArchive
  <2>1. status = "reading" /\ UNCHANGED <<line, system, command, readers, query, changed>>
    BY <1>6 DEF ReadArchive, Asking
  <2>. QED  BY <1>6, <2>1, ArchiveAsked, SameSystem, SearchGoesOn
<1>10. CASE OpenMissing
  <2>1. status = "reading" /\ UNCHANGED <<line, command, readers, query, changed>>
    BY <1>10 DEF OpenMissing, Asking
  <2>2. SystemOK /\ SamePaths
    BY <1>10, MissingMade DEF ReadInv
  <2>. QED  BY <1>10, <2>1, <2>2, MissingAsked, SearchGoesOn
<1>7. CASE NotFound
  <2>1. /\ status = "reading" /\ left = << >> /\ status' \in {"missing", "fatal"}
        /\ UNCHANGED <<line, system, command, readers, query, left, changed>>
    BY <1>7 DEF NotFound
  <2>2. ASSUME NEW d, Passed(d) PROVE Passed(d)'
    BY <2>1, <2>2, StandStill
  <2>. QED  BY <2>1, <2>2, SameSystem, SearchGoesOn
<1>8. CASE WriteFile \/ RemoveFile \/ RemoveArchive \/ DamageArchive
  <2>1. \E fs : Disturb(fs)
    BY <1>8, Zenon DEF WriteFile, RemoveFile, RemoveArchive, DamageArchive
  <2>2. changed' /= "not" /\ UNCHANGED <<line, command, query>>
    BY <2>1 DEF Disturb
  <2>. QED  BY <2>2 DEF SearchInv
<1>9. CASE UNCHANGED vars
  <2>1. UNCHANGED <<line, system, command, readers, query, left, changed, answer, status>>
    BY <1>9 DEF vars
  <2>2. GetJreDir' = GetJreDir /\ Built' = Built /\ Asks' = Asks /\ (PathsOK => PathsOK')
    BY <2>1, SameSystem, SameSearch
  <2>3. ASSUME NEW d, Passed(d) PROVE Passed(d)'
    <3>1. /\ status' = "found" => left /= << >> /\ answer'.reader = Asked /\ Holds(Asked)
          /\ status' = "thrown" => left /= << >> /\ Unopenable(Asked)
          /\ status' = "crashed" => left /= << >> /\ Locked(Asked)
          /\ status' \in {"missing", "fatal"} => left = << >>
      BY <2>1, <2>3 DEF Passed, Breaks
    <3>. QED  BY <2>1, <2>3, <3>1, StandStill
  <2>. QED  BY <2>1, <2>2, <2>3 DEF SearchInv
<1>. QED  BY <1>1, <1>2, <1>3, <1>4, <1>5, <1>6, <1>7, <1>8, <1>9, <1>10 DEF Next

LEMMA SearchInvAlways == Spec => []SearchInv
<1>1. Init => SearchInv
  <2>1. Init => PathsOK
    BY SystemPaths DEF Init
  <2>. QED  BY <2>1, NoCommandTyped, QueriesAssumption DEF Init, SearchInv
<1>. QED  BY <1>1, SearchInvNext, ReadInvAlways, PTL DEF Spec

(* Where the search stands among the readers tells where it stands among   *)
(* the entries.                                                            *)
LEMMA FirstReaderFirstEntry ==
  ASSUME NEW s, NEW es, Ranked(s, es), NEW d \in Nat, d + 1 \in 1 .. Len(s),
         \A i \in 1 .. d : ~ Holds(s[i])
  PROVE  \E i \in 1 .. Len(es) :
            /\ s[d + 1] \in ReadersOf(es[i])
            /\ \A j \in 1 .. Len(es) : (\E r \in ReadersOf(es[j]) : Holds(r)) => i <= j
<1>1. PICK g : RankedBy(s, es, g)
  BY DEF Ranked
<1>2. g[d + 1] \in 1 .. Len(es) /\ s[d + 1] \in ReadersOf(es[g[d + 1]])
  BY <1>1 DEF RankedBy
<1>3. ASSUME NEW j \in 1 .. Len(es), NEW r \in ReadersOf(es[j]), Holds(r)
      PROVE  g[d + 1] <= j
  <2>1. PICK p \in 1 .. Len(s) : g[p] = j /\ s[p] = r
    BY <1>1, Zenon DEF RankedBy
  <2>2. p \notin 1 .. d
    BY <1>3, <2>1, Zenon
  <2>3. d + 1 <= p
    BY <2>2
  <2>. QED  BY <1>1, <2>1, <2>3 DEF RankedBy
<1>. QED  BY <1>2, <1>3, Zenon

(* In a file system that others leave alone, a class comes from the first  *)
(* entry of the class path that has it, for all class paths, wildcards and *)
(* empty entries included, and all file systems: the readers are made in   *)
(* the order of the entries (class_reader.cpp, CreateClassReader), each    *)
(* one that was passed did not hold the class, and an archive that         *)
(* ZipFile::Open makes in place of a missing one changes nothing about it. *)
THEOREM FirstEntryAlwaysWins == Spec => []FirstEntryWins
<1>1. ReadInv /\ SearchInv => FirstEntryWins
  <2>. SUFFICES ASSUME SearchInv, status \in {"found", "thrown", "crashed", "missing", "fatal"},
                       changed = "not", GetJreDir /= "", Asks
                PROVE  LET some == {i \in DOMAIN Entries :
                                      \E r \in ReadersOf(Entries[i]) : Holds(r)}
                       IN CASE status = "found" ->
                                 \E i \in some : /\ answer.reader \in ReadersOf(Entries[i])
                                                 /\ Holds(answer.reader)
                                                 /\ \A j \in some : i <= j
                            [] status \in {"thrown", "crashed"} ->
                                 \E i \in DOMAIN Entries :
                                   /\ \E r \in ReadersOf(Entries[i]) : Breaks(r)
                                   /\ \A j \in some : i <= j
                            [] OTHER -> some = {}
    BY Zenon DEF FirstEntryWins, Asks
  <2>. DEFINE s == Order  es == Entries
              some == {i \in DOMAIN es : \E r \in ReadersOf(es[i]) : Holds(r)}
  <2>1. s \in Seq(Readers) /\ es \in Seq(PathEntries) /\ Ranked(s, es)
    BY OrderRanked DEF SearchInv
  <2>2. PICK d : Passed(d)
    BY DEF SearchInv
  <2>3. /\ d \in 0 .. Len(s) /\ left = SubSeq(s, d + 1, Len(s))
        /\ \A i \in 1 .. d : ~ Holds(s[i])
    BY <2>2, Zenon DEF Passed
  <2>. HIDE DEF s, es
  <2>4. Len(s) \in Nat /\ d \in Nat /\ DOMAIN es = 1 .. Len(es)
    BY <2>1, <2>3, SeqDomain, UpTo, Zenon
  <2>5. ASSUME left /= << >>
        PROVE  \E i \in DOMAIN es : Asked \in ReadersOf(es[i]) /\ \A j \in some : i <= j
    <3>1. d + 1 \in 0 .. Len(s) /\ Asked = s[d + 1]
      BY <2>1, <2>3, <2>5, Advance DEF Asked
    <3>2. d + 1 \in 1 .. Len(s)
      BY <2>3, <2>4, <3>1, UpTo, Zenon
    <3>3. PICK i \in 1 .. Len(es) :
            /\ s[d + 1] \in ReadersOf(es[i])
            /\ \A j \in 1 .. Len(es) : (\E r \in ReadersOf(es[j]) : Holds(r)) => i <= j
      BY <2>1, <2>3, <2>4, <3>2, FirstReaderFirstEntry, Zenon
    <3>. QED  BY <2>4, <3>1, <3>3, Zenon
  <2>6. CASE status = "found"
    <3>1. left /= << >> /\ answer.reader = Asked /\ Holds(Asked)
      BY <2>2, <2>6, Zenon DEF Passed
    <3>2. PICK i \in DOMAIN es : Asked \in ReadersOf(es[i]) /\ \A j \in some : i <= j
      BY <2>5, <3>1
    <3>3. i \in some
      BY <3>1, <3>2, Zenon
    <3>. QED  BY <2>6, <3>1, <3>2, <3>3 DEF es
  <2>7. CASE status \in {"thrown", "crashed"}
    <3>1. left /= << >> /\ Breaks(Asked)
      BY <2>2, <2>7, Zenon DEF Passed
    <3>2. PICK i \in DOMAIN es : Asked \in ReadersOf(es[i]) /\ \A j \in some : i <= j
      BY <2>5, <3>1
    <3>. QED  BY <2>7, <3>1, <3>2 DEF es
  <2>8. CASE status \in {"missing", "fatal"}
    <3>1. left = << >>
      BY <2>2, <2>8, Zenon DEF Passed
    <3>2. d = Len(s)
      <4>1. Len(left) = 0
        BY <3>1
      <4>. QED  BY <2>1, <2>3, <4>1, AllPassed, Zenon
    <3>3. ASSUME NEW i \in DOMAIN es, NEW r \in ReadersOf(es[i]), Holds(r)
          PROVE  FALSE
      <4>1. \E p \in 1 .. Len(s) : s[p] = r
        BY <2>1, <2>4, Zenon DEF Ranked, RankedBy
      <4>. QED  BY <2>3, <3>2, <3>3, <4>1, Zenon
    <3>4. some = {}
      BY <3>3
    <3>. QED  BY <2>8, <3>4 DEF es
  <2>. QED  BY <2>6, <2>7, <2>8
<1>. QED  BY <1>1, ReadInvAlways, SearchInvAlways, PTL

-----------------------------------------------------------------------------
(* What a command line means *)

OptionKinds == {"cp", "jre", "memory"}
Quiet(cmd) == ~ cmd.version /\ ~ cmd.help /\ ~ cmd.ended

LEMMA TakeOption ==
  ASSUME NEW cmd \in Commands, NEW token \in Tokens, Quiet(cmd), cmd.wants = "",
         token.kind \in OptionKinds
  PROVE  /\ Quiet(Taken(cmd, token)) /\ Taken(cmd, token).words = cmd.words
         /\ Taken(cmd, token).cp = cmd.cp /\ Taken(cmd, token).jre = cmd.jre
         /\ Taken(cmd, token).wants = token.kind
<1>1. Taken(cmd, token) = [cmd EXCEPT !.wants = token.kind]
  BY DEF Taken, Quiet, OptionKinds
<1>. QED  BY <1>1 DEF Commands, Quiet

LEMMA TakeArgument ==
  ASSUME NEW cmd \in Commands, NEW token \in Tokens, Quiet(cmd), cmd.wants \in OptionKinds
  PROVE  /\ Quiet(Taken(cmd, token)) /\ Taken(cmd, token).words = cmd.words
         /\ Taken(cmd, token).cp = IF cmd.wants = "cp" THEN token.value ELSE cmd.cp
         /\ Taken(cmd, token).jre = IF cmd.wants = "jre" THEN token.value ELSE cmd.jre
         /\ Taken(cmd, token).wants = ""
<1>1. CASE cmd.wants = "cp"
  <2>1. Taken(cmd, token) = [cmd EXCEPT !.cp = token.value, !.wants = ""]
    BY <1>1 DEF Taken
  <2>. QED  BY <1>1, <2>1 DEF Commands, Quiet
<1>2. CASE cmd.wants = "jre"
  <2>1. Taken(cmd, token) = [cmd EXCEPT !.jre = token.value, !.wants = ""]
    BY <1>2 DEF Taken
  <2>. QED  BY <1>2, <2>1 DEF Commands, Quiet
<1>3. CASE cmd.wants = "memory"
  <2>1. Taken(cmd, token) = [cmd EXCEPT !.wants = ""]
    BY <1>3 DEF Taken
  <2>. QED  BY <1>3, <2>1 DEF Commands, Quiet
<1>. QED  BY <1>1, <1>2, <1>3 DEF OptionKinds

LEMMA TakeWord ==
  ASSUME NEW cmd \in Commands, NEW token \in Tokens, Quiet(cmd), cmd.wants = "",
         token.kind = "word"
  PROVE  /\ Quiet(Taken(cmd, token)) /\ Taken(cmd, token).words = Append(cmd.words, token.value)
         /\ Taken(cmd, token).cp = cmd.cp /\ Taken(cmd, token).jre = cmd.jre
         /\ Taken(cmd, token).wants = ""
<1>1. Taken(cmd, token) = [cmd EXCEPT !.words = Append(cmd.words, token.value)]
  BY DEF Taken
<1>. QED  BY <1>1 DEF Commands, Quiet

LEMMA TakeNoWord ==
  ASSUME NEW cmd \in Commands, NEW token \in Tokens, ~ cmd.ended, token.kind /= "word"
  PROVE  /\ Taken(cmd, token).words = cmd.words
         /\ Taken(cmd, token).ended => token.kind = "end"
<1>1. CASE cmd.wants /= ""
  BY <1>1 DEF Taken, Commands
<1>2. CASE cmd.wants = ""
  BY <1>2 DEF Taken, Commands, Tokens, TokenKinds
<1>. QED  BY <1>1, <1>2

(* Position i does not stand behind an option. *)
StandsAlone(i) == i = 1 \/ line[i - 1].kind \notin OptionKinds

LEMMA LastOptionStep ==
  ASSUME NEW i \in Nat \ {0}, NEW kind
  PROVE  LastOption(kind, i + 1) =
           IF line[i].kind = kind /\ StandsAlone(i) THEN line[i + 1].value ELSE LastOption(kind, i)
<1>. DEFINE Before(k) == {j \in 1 .. k - 1 : line[j].kind = kind /\ StandsAlone(j)}
            Greatest(S) == CHOOSE j \in S : \A m \in S : m <= j
<1>1. \A k : LastOption(kind, k) = IF Before(k) = {} THEN "" ELSE line[Greatest(Before(k)) + 1].value
  BY Zenon DEF LastOption, StandsAlone, OptionKinds
<1>2. 1 .. (i + 1) - 1 = (1 .. i - 1) \cup {i}
  OBVIOUS
<1>3. Before(i + 1) = Before(i) \cup (IF line[i].kind = kind /\ StandsAlone(i) THEN {i} ELSE {})
  <2>. HIDE DEF StandsAlone
  <2>. QED  BY <1>2
<1>4. CASE ~ (line[i].kind = kind /\ StandsAlone(i))
  <2>1. Before(i + 1) = Before(i)
    BY <1>3, <1>4
  <2>. HIDE DEF Before
  <2>. QED  BY <1>1, <1>4, <2>1, Zenon
<1>5. CASE line[i].kind = kind /\ StandsAlone(i)
  <2>1. i \in Before(i + 1) /\ \A m \in Before(i + 1) : m <= i /\ m \in Nat
    <3>1. Before(i + 1) \subseteq 1 .. i /\ i \in 1 .. (i + 1) - 1
      <4>. HIDE DEF StandsAlone
      <4>. QED  BY <1>2
    <3>2. i \in Before(i + 1)
      BY <1>5, <3>1, Zenon
    <3>. QED  BY <3>1, <3>2
  <2>. HIDE DEF Before
  <2>2. Greatest(Before(i + 1)) = i
    <3>. DEFINE S == Before(i + 1)  P(j) == \A m \in S : m <= j
    <3>. HIDE DEF S
    <3>1. i \in S /\ P(i) /\ \A m \in S : m <= i /\ m \in Nat
      BY <2>1 DEF S
    <3>2. Greatest(S) \in S /\ \A m \in S : m <= Greatest(S)
      BY <3>1, Zenon
    <3>3. Greatest(S) <= i /\ i <= Greatest(S) /\ Greatest(S) \in Nat
      BY <3>1, <3>2, Zenon
    <3>. DEFINE x == Greatest(S)
    <3>. HIDE DEF x
    <3>4. x <= i /\ i <= x /\ x \in Nat
      BY <3>3 DEF x
    <3>5. x = i
      BY <3>4
    <3>. QED  BY <3>5, Zenon DEF x, S
  <2>3. Before(i + 1) /= {}
    BY <2>1
  <2>. QED  BY <1>1, <1>5, <2>2, <2>3, Zenon
<1>. QED  BY <1>4, <1>5

LEMMA LastOptionNone ==
  ASSUME NEW kind
  PROVE  LastOption(kind, 0) = "" /\ LastOption(kind, 1) = ""
<1>1. 1 .. 0 - 1 = {} /\ 1 .. 1 - 1 = {}
  OBVIOUS
<1>. QED  BY <1>1, Zenon DEF LastOption

(* The command after the i tokens before the class *)
BeforeClass(cmd, i) ==
  /\ Quiet(cmd) /\ cmd.words = << >>
  /\ cmd.cp = LastOption("cp", i) /\ cmd.jre = LastOption("jre", i)
  /\ cmd.wants = IF i = 0 \/ line[i].kind \notin OptionKinds THEN "" ELSE line[i].kind

(* The command after i tokens, the class at k among them *)
AfterClass(cmd, k, i) ==
  /\ Quiet(cmd) /\ cmd.wants = ""
  /\ cmd.cp = LastOption("cp", k) /\ cmd.jre = LastOption("jre", k)
  /\ cmd.words = [m \in 1 .. i - k + 1 |-> line[k + m - 1].value]

(* Options and their arguments take turns. *)
PlainBefore(k) ==
  \A i \in 1 .. k - 1 :
    \/ line[i].kind \in OptionKinds /\ line[i + 1].kind = "word" /\ i + 1 < k
    \/ line[i].kind = "word" /\ i > 1 /\ line[i - 1].kind \in OptionKinds

LEMMA PlainParts ==
  ASSUME line \in Seq(Tokens), NEW k \in DOMAIN line, Plain(k)
  PROVE  PlainBefore(k) /\ \A i \in k .. Len(line) : line[i].kind = "word"
<1>1. PlainBefore(k)
  BY Zenon DEF Plain, PlainBefore, OptionKinds
<1>. DEFINE rest == SubSeq(line, k, Len(line))
<1>2. \A i \in DOMAIN rest : rest[i].kind = "word"
  BY Zenon DEF Plain, Words
<1>3. k \in 1 .. Len(line) /\ Len(line) \in Nat
  OBVIOUS
<1>4. DOMAIN rest = 1 .. Len(line) - k + 1
  BY <1>3
<1>5. \A i \in k .. Len(line) : i - k + 1 \in 1 .. Len(line) - k + 1 /\ rest[i - k + 1] = line[i]
  BY <1>3
<1>. HIDE DEF rest
<1>. QED  BY <1>1, <1>2, <1>4, <1>5, Zenon

LEMMA BeforeClassStep ==
  ASSUME line \in Seq(Tokens), NEW k \in DOMAIN line, PlainBefore(k),
         NEW i \in Nat, i + 1 < k, NEW cmd \in Commands, BeforeClass(cmd, i)
  PROVE  BeforeClass(Taken(cmd, line[i + 1]), i + 1)
<1>. DEFINE token == line[i + 1]
<1>0. k \in 1 .. Len(line) /\ Len(line) \in Nat /\ DOMAIN line = 1 .. Len(line)
  OBVIOUS
<1>1. token \in Tokens /\ i + 1 \in 1 .. k - 1 /\ (i + 1) - 1 = i
  BY <1>0
<1>2. \/ token.kind \in OptionKinds
      \/ token.kind = "word" /\ i + 1 > 1 /\ line[i].kind \in OptionKinds
  BY <1>1 DEF PlainBefore
<1>3. i /= 0 => \/ line[i].kind \in OptionKinds /\ token.kind = "word"
                \/ line[i].kind = "word" /\ i > 1 /\ line[i - 1].kind \in OptionKinds
  <2>. SUFFICES ASSUME i /= 0 PROVE i \in 1 .. k - 1
    BY Zenon DEF PlainBefore
  <2>. QED  BY <1>0
<1>4. "word" \notin OptionKinds
  BY DEF OptionKinds
<1>. HIDE DEF token
<1>5. CASE i = 0 \/ line[i].kind \notin OptionKinds
  <2>1. token.kind \in OptionKinds
    BY <1>2, <1>5
  <2>2. cmd.wants = "" /\ Quiet(cmd)
    BY <1>5, Zenon DEF BeforeClass
  <2>3. /\ Quiet(Taken(cmd, token)) /\ Taken(cmd, token).words = cmd.words
        /\ Taken(cmd, token).cp = cmd.cp /\ Taken(cmd, token).jre = cmd.jre
        /\ Taken(cmd, token).wants = token.kind
    BY <1>1, <2>1, <2>2, TakeOption
  <2>4. LastOption("cp", i + 1) = LastOption("cp", i) /\ LastOption("jre", i + 1) = LastOption("jre", i)
    <3>1. CASE i = 0
      <4>1. i + 1 = 1
        BY <3>1
      <4>. QED  BY <3>1, <4>1, LastOptionNone, Zenon
    <3>2. CASE i /= 0
      <4>1. line[i].kind /= "cp" /\ line[i].kind /= "jre" /\ i \in Nat \ {0}
        BY <1>5, <3>2 DEF OptionKinds
      <4>. QED  BY <4>1, LastOptionStep, Zenon
    <3>. QED  BY <3>1, <3>2
  <2>5. ~ (i + 1 = 0 \/ line[i + 1].kind \notin OptionKinds)
    BY <2>1 DEF token
  <2>. QED  BY <2>3, <2>4, <2>5, Zenon DEF BeforeClass, token
<1>6. CASE i /= 0 /\ line[i].kind \in OptionKinds
  <2>1. token.kind = "word" /\ i \in Nat \ {0}
    BY <1>3, <1>4, <1>6
  <2>2. cmd.wants = line[i].kind /\ Quiet(cmd)
    BY <1>6, Zenon DEF BeforeClass
  <2>3. /\ Quiet(Taken(cmd, token)) /\ Taken(cmd, token).words = cmd.words
        /\ Taken(cmd, token).cp = IF cmd.wants = "cp" THEN token.value ELSE cmd.cp
        /\ Taken(cmd, token).jre = IF cmd.wants = "jre" THEN token.value ELSE cmd.jre
        /\ Taken(cmd, token).wants = ""
    BY <1>1, <1>6, <2>2, TakeArgument
  <2>4. StandsAlone(i)
    <3>. SUFFICES ASSUME i /= 1, line[i - 1].kind \in OptionKinds PROVE FALSE
      BY DEF StandsAlone
    <3>1. i - 1 \in 1 .. k - 1 /\ (i - 1) + 1 = i
      BY <1>0, <2>1
    <3>2. line[i].kind = "word" \/ line[i - 1].kind = "word"
      BY <3>1 DEF PlainBefore
    <3>. QED  BY <1>4, <1>6, <3>2
  <2>5. /\ LastOption("cp", i + 1) = IF line[i].kind = "cp" THEN token.value ELSE LastOption("cp", i)
        /\ LastOption("jre", i + 1) = IF line[i].kind = "jre" THEN token.value ELSE LastOption("jre", i)
    BY <2>1, <2>4, LastOptionStep, Zenon DEF token
  <2>6. line[i + 1].kind \notin OptionKinds
    BY <1>4, <2>1 DEF token
  <2>. QED  BY <2>2, <2>3, <2>5, <2>6, Zenon DEF BeforeClass, token
<1>. QED  BY <1>5, <1>6

LEMMA ClassReached ==
  ASSUME line \in Seq(Tokens), NEW k \in DOMAIN line, PlainBefore(k), NEW cmd \in Commands,
         BeforeClass(cmd, k - 1)
  PROVE  AfterClass(cmd, k, k - 1)
<1>0. k \in 1 .. Len(line) /\ Len(line) \in Nat
  OBVIOUS
<1>1. (k - 1) - k + 1 = 0
  BY <1>0
<1>2. cmd.words = [m \in 1 .. (k - 1) - k + 1 |-> line[k + m - 1].value]
  <2>1. cmd.words = << >>
    BY Zenon DEF BeforeClass
  <2>2. 1 .. (k - 1) - k + 1 = {}
    BY <1>1
  <2>3. << >> = [m \in {} |-> line[k + m - 1].value]
    OBVIOUS
  <2>. QED  BY <2>1, <2>2, <2>3, Zenon
<1>3. CASE k = 1
  <2>1. k - 1 = 0
    BY <1>3
  <2>2. LastOption("cp", k) = LastOption("cp", k - 1) /\ LastOption("jre", k) = LastOption("jre", k - 1)
    BY <1>3, <2>1, LastOptionNone, Zenon
  <2>. QED  BY <1>2, <2>1, <2>2, Zenon DEF BeforeClass, AfterClass
<1>4. CASE k /= 1
  <2>1. k - 1 \in 1 .. k - 1 /\ k - 1 \in Nat \ {0} /\ (k - 1) + 1 = k /\ ~ (k < k)
    BY <1>0, <1>4
  <2>2. line[k - 1].kind = "word"
    BY <2>1, Zenon DEF PlainBefore
  <2>3. line[k - 1].kind \notin OptionKinds /\ line[k - 1].kind /= "cp" /\ line[k - 1].kind /= "jre"
    BY <2>2 DEF OptionKinds
  <2>4. LastOption("cp", k) = LastOption("cp", k - 1) /\ LastOption("jre", k) = LastOption("jre", k - 1)
    BY <2>1, <2>3, LastOptionStep, Zenon
  <2>. QED  BY <1>2, <2>3, <2>4, Zenon DEF BeforeClass, AfterClass
<1>. QED  BY <1>3, <1>4

LEMMA AfterClassStep ==
  ASSUME line \in Seq(Tokens), NEW k \in DOMAIN line, NEW i \in k - 1 .. Len(line) - 1,
         line[i + 1].kind = "word", NEW cmd \in Commands, AfterClass(cmd, k, i)
  PROVE  AfterClass(Taken(cmd, line[i + 1]), k, i + 1)
<1>. DEFINE token == line[i + 1]
<1>0. k \in 1 .. Len(line) /\ Len(line) \in Nat /\ i + 1 \in 1 .. Len(line)
  OBVIOUS
<1>1. token \in Tokens
  BY <1>0
<1>2. Quiet(cmd) /\ cmd.wants = ""
  BY Zenon DEF AfterClass
<1>3. /\ Quiet(Taken(cmd, token)) /\ Taken(cmd, token).words = Append(cmd.words, token.value)
      /\ Taken(cmd, token).cp = cmd.cp /\ Taken(cmd, token).jre = cmd.jre
      /\ Taken(cmd, token).wants = ""
  BY <1>1, <1>2, TakeWord
<1>4. Append(cmd.words, token.value) = [m \in 1 .. (i + 1) - k + 1 |-> line[k + m - 1].value]
  <2>1. cmd.words = [m \in 1 .. i - k + 1 |-> line[k + m - 1].value]
    BY Zenon DEF AfterClass
  <2>3. i - k + 1 \in Nat /\ (i + 1) - k + 1 = (i - k + 1) + 1 /\ k + (i - k + 1 + 1) - 1 = i + 1
    BY <1>0
  <2>. DEFINE u == i - k + 1
  <2>. HIDE DEF u
  <2>4. Len(cmd.words) = u /\ u \in Nat
    BY <2>1, <2>3 DEF u
  <2>. QED  BY <2>1, <2>3, <2>4 DEF u
<1>. QED  BY <1>3, <1>4, Zenon DEF AfterClass

LEMMA Shift ==
  ASSUME NEW n \in Nat, NEW k \in 1 .. n, NEW i \in 0 .. (n - k + 1) - 1
  PROVE  LET j == k - 1 + i
         IN /\ j \in k - 1 .. n - 1 /\ j \in 0 .. n /\ j + 1 \in 1 .. n /\ (j + 1) - 1 = j
            /\ j + 1 \in k .. n /\ k - 1 + (i + 1) = j + 1 /\ i + 1 \in 0 .. n - k + 1
OBVIOUS

(* A command line of options, a class and words *)
LEMMA PlainMeant ==
  ASSUME line \in Seq(Tokens), NEW k \in DOMAIN line, Plain(k)
  PROVE  /\ ~ Parsed(line).version /\ ~ Parsed(line).help /\ Parsed(line).words /= << >>
         /\ Parsed(line).words = [i \in 1 .. Len(line) - k + 1 |-> line[k + i - 1].value]
         /\ Parsed(line).cp = LastOption("cp", k) /\ Parsed(line).jre = LastOption("jre", k)
<1>. DEFINE n == Len(line)
<1>0. k \in 1 .. n /\ n \in Nat /\ k - 1 \in Nat /\ n - k + 1 \in Nat /\ DOMAIN line = 1 .. n
  OBVIOUS
<1>1. PICK f : ScannedBy(f, line)
  BY ParsedSteps
<1>2. /\ f \in [0 .. n -> Commands] /\ f[0] = NoCommand
      /\ \A i \in 1 .. n : f[i] = Taken(f[i - 1], line[i])
      /\ Parsed(line) = IF f[n].wants /= "" THEN [f[n] EXCEPT !.help = TRUE] ELSE f[n]
  BY <1>1, Zenon DEF ScannedBy
<1>3. PlainBefore(k) /\ \A i \in k .. n : line[i].kind = "word"
  BY PlainParts
<1>. HIDE DEF n
<1>4. BeforeClass(f[k - 1], k - 1)
  <2>. DEFINE S == {i \in 0 .. k - 1 : BeforeClass(f[i], i)}
  <2>1. 0 \in S
    <3>1. BeforeClass(NoCommand, 0)
      BY LastOptionNone DEF BeforeClass, NoCommand, Quiet
    <3>2. 0 \in 0 .. k - 1
      BY <1>0
    <3>. QED  BY <1>2, <3>1, <3>2, Zenon
  <2>2. \A i \in 0 .. (k - 1) - 1 : i \in S => i + 1 \in S
    <3>. SUFFICES ASSUME NEW i \in 0 .. (k - 1) - 1, i \in S PROVE i + 1 \in S
      OBVIOUS
    <3>1. /\ i \in Nat /\ i + 1 < k /\ i \in 0 .. n /\ i + 1 \in 1 .. n
          /\ (i + 1) - 1 = i /\ i + 1 \in 0 .. k - 1
      BY <1>0
    <3>2. f[i] \in Commands /\ f[i + 1] = Taken(f[i], line[i + 1])
      BY <1>2, <3>1, Zenon
    <3>3. BeforeClass(f[i], i)
      BY Zenon
    <3>4. BeforeClass(Taken(f[i], line[i + 1]), i + 1)
      BY <1>3, <3>1, <3>2, <3>3, BeforeClassStep, Zenon
    <3>. QED  BY <3>1, <3>2, <3>4, Zenon
  <2>. HIDE DEF S
  <2>3. 0 .. k - 1 \subseteq S
    BY <1>0, <2>1, <2>2, Induction
  <2>4. k - 1 \in S
    BY <1>0, <2>3
  <2>. QED  BY <2>4, Zenon DEF S
<1>5. AfterClass(f[n], k, n)
  <2>. DEFINE S == {i \in 0 .. n - k + 1 : AfterClass(f[k - 1 + i], k, k - 1 + i)}
  <2>1. 0 \in S
    <3>1. k - 1 + 0 = k - 1 /\ 0 \in 0 .. n - k + 1 /\ k - 1 \in 0 .. n
      BY <1>0
    <3>2. f[k - 1] \in Commands
      BY <1>2, <3>1, Zenon
    <3>3. AfterClass(f[k - 1], k, k - 1)
      BY <1>3, <1>4, <3>2, ClassReached, Zenon
    <3>. QED  BY <3>1, <3>3, Zenon
  <2>2. \A i \in 0 .. (n - k + 1) - 1 : i \in S => i + 1 \in S
    <3>. SUFFICES ASSUME NEW i \in 0 .. (n - k + 1) - 1, i \in S PROVE i + 1 \in S
      OBVIOUS
    <3>. DEFINE j == k - 1 + i
    <3>1. /\ j \in k - 1 .. n - 1 /\ j \in 0 .. n /\ j + 1 \in 1 .. n /\ (j + 1) - 1 = j
          /\ j + 1 \in k .. n /\ k - 1 + (i + 1) = j + 1 /\ i + 1 \in 0 .. n - k + 1
      BY <1>0, Shift, Zenon
    <3>2. AfterClass(f[j], k, j)
      BY Zenon
    <3>. HIDE DEF j
    <3>3. f[j] \in Commands /\ f[j + 1] = Taken(f[j], line[j + 1]) /\ line[j + 1].kind = "word"
      BY <1>2, <1>3, <3>1, Zenon
    <3>4. AfterClass(Taken(f[j], line[j + 1]), k, j + 1)
      BY <3>1, <3>2, <3>3, AfterClassStep, Zenon DEF n
    <3>. QED  BY <3>1, <3>3, <3>4, Zenon
  <2>. HIDE DEF S
  <2>3. 0 .. n - k + 1 \subseteq S
    BY <1>0, <2>1, <2>2, Induction
  <2>4. n - k + 1 \in S /\ k - 1 + (n - k + 1) = n
    BY <1>0, <2>3
  <2>. QED  BY <2>4, Zenon DEF S
<1>6. Parsed(line) = f[n]
  BY <1>2, <1>5, Zenon DEF AfterClass
<1>7. f[n].words /= << >>
  <2>1. f[n].words = [i \in 1 .. n - k + 1 |-> line[k + i - 1].value]
    BY <1>5, Zenon DEF AfterClass
  <2>2. DOMAIN f[n].words = 1 .. n - k + 1
    BY <2>1, Zenon
  <2>3. 1 \in 1 .. n - k + 1
    BY <1>0
  <2>4. DOMAIN << >> = {}
    OBVIOUS
  <2>. QED  BY <2>2, <2>3, <2>4, Zenon
<1>. QED  BY <1>5, <1>6, <1>7, Zenon DEF AfterClass, Quiet, n

(* A command line without a class *)
LEMMA NoClassMeant ==
  ASSUME line \in Seq(Tokens),
         \A i \in DOMAIN line : line[i].kind /= "word" /\ (line[i].kind = "end" => i = Len(line))
  PROVE  Parsed(line).words = << >>
<1>. DEFINE n == Len(line)
<1>0. n \in Nat /\ DOMAIN line = 1 .. n
  OBVIOUS
<1>1. PICK f : ScannedBy(f, line)
  BY ParsedSteps
<1>2. /\ f \in [0 .. n -> Commands] /\ f[0] = NoCommand
      /\ \A i \in 1 .. n : f[i] = Taken(f[i - 1], line[i])
      /\ Parsed(line) = IF f[n].wants /= "" THEN [f[n] EXCEPT !.help = TRUE] ELSE f[n]
  BY <1>1, Zenon DEF ScannedBy
<1>3. \A i \in 1 .. n : line[i] \in Tokens
  BY <1>0, ElementsIn, Zenon
<1>. HIDE DEF n
<1>. DEFINE S == {i \in 0 .. n : f[i].words = << >> /\ (f[i].ended => i = n)}
<1>4. 0 \in S
  <2>1. NoCommand.words = << >> /\ ~ NoCommand.ended
    BY DEF NoCommand
  <2>2. 0 \in 0 .. n
    BY <1>0
  <2>. QED  BY <1>2, <2>1, <2>2, Zenon
<1>5. \A i \in 0 .. n - 1 : i \in S => i + 1 \in S
  <2>. SUFFICES ASSUME NEW i \in 0 .. n - 1, i \in S PROVE i + 1 \in S
    OBVIOUS
  <2>1. i \in 0 .. n /\ i + 1 \in 1 .. n /\ (i + 1) - 1 = i /\ i + 1 \in 0 .. n /\ i /= n
    BY <1>0
  <2>2. /\ f[i] \in Commands /\ f[i + 1] = Taken(f[i], line[i + 1]) /\ line[i + 1] \in Tokens
        /\ f[i].words = << >> /\ ~ f[i].ended
    BY <1>2, <1>3, <2>1, Zenon
  <2>3. line[i + 1].kind /= "word" /\ (line[i + 1].kind = "end" => i + 1 = n)
    BY <1>0, <2>1, Zenon DEF n
  <2>4. Taken(f[i], line[i + 1]).words = f[i].words
        /\ (Taken(f[i], line[i + 1]).ended => line[i + 1].kind = "end")
    BY <2>2, <2>3, TakeNoWord
  <2>. QED  BY <2>1, <2>2, <2>3, <2>4, Zenon
<1>6. n \in S
  <2>. HIDE DEF S
  <2>1. 0 .. n \subseteq S
    BY <1>0, <1>4, <1>5, Induction
  <2>. QED  BY <1>0, <2>1
<1>7. f[n].words = << >> /\ f[n] \in Commands
  BY <1>2, <1>6, Zenon
<1>8. [f[n] EXCEPT !.help = TRUE].words = << >>
  BY <1>7 DEF Commands
<1>. QED  BY <1>2, <1>7, <1>8, Zenon

(* The command is what ParseCommand made of the line, and main started the *)
(* JVM accordingly.                                                        *)
CommandInv ==
  /\ line \in CommandLines
  /\ status /= "command" =>
       /\ command = Parsed(line)
       /\ status = "printed" <=> \/ command.version \/ command.help
                                 \/ command.words = << >> \/ command.words[1] = ""

LEMMA CommandInvNext ==
  ASSUME CommandInv, [Next]_vars
  PROVE  CommandInv'
<1>1. CASE ParseCommand
  BY <1>1 DEF ParseCommand, CommandInv
<1>2. CASE ParseClassPaths
  BY <1>2 DEF ParseClassPaths, CommandInv
<1>3. CASE ReadClass
  BY <1>3 DEF ReadClass, CommandInv
<1>4. CASE Lstat \/ NotFound
  BY <1>4 DEF Lstat, NotFound, Asking, CommandInv
<1>5. CASE ReadFile
  BY <1>5 DEF ReadFile, Asking, Found, CommandInv
<1>6. CASE ReadArchive
  BY <1>6 DEF ReadArchive, Asking, Found, CommandInv
<1>9. CASE OpenMissing
  BY <1>9 DEF OpenMissing, Asking, CommandInv
<1>7. CASE WriteFile \/ RemoveFile \/ RemoveArchive \/ DamageArchive
  <2>1. \E fs : Disturb(fs)
    BY <1>7, Zenon DEF WriteFile, RemoveFile, RemoveArchive, DamageArchive
  <2>2. UNCHANGED <<line, command, status>>
    BY <2>1 DEF Disturb
  <2>. QED  BY <2>2 DEF CommandInv
<1>8. CASE UNCHANGED vars
  BY <1>8 DEF vars, CommandInv
<1>. QED  BY <1>1, <1>2, <1>3, <1>4, <1>5, <1>6, <1>7, <1>8, <1>9 DEF Next

(* A command line of options, a class and words runs that class with those *)
(* words and the last -cp and -Xjre, and without a class nothing runs, for *)
(* command lines of any length (command.cpp, ParseCommand, and main.cpp).  *)
THEOREM CommandAlwaysMeant == Spec => []CommandMeant
<1>1. Init => CommandInv
  BY DEF Init, CommandInv
<1>2. CommandInv => CommandMeant
  <2>. SUFFICES ASSUME CommandInv, status /= "command" PROVE CommandMeant
    BY DEF CommandMeant
  <2>1. line \in Seq(Tokens)
    BY LinesAreTokens DEF CommandInv
  <2>2. /\ command = Parsed(line)
        /\ status = "printed" <=> \/ command.version \/ command.help
                                  \/ command.words = << >> \/ command.words[1] = ""
    BY DEF CommandInv
  <2>3. ASSUME NEW k \in DOMAIN line, Plain(k)
        PROVE  /\ status = "printed" <=> line[k].value = ""
               /\ command.words = [i \in 1 .. Len(line) - k + 1 |-> line[k + i - 1].value]
               /\ command.cp = LastOption("cp", k) /\ command.jre = LastOption("jre", k)
    <3>1. /\ ~ command.version /\ ~ command.help /\ command.words /= << >>
          /\ command.words = [i \in 1 .. Len(line) - k + 1 |-> line[k + i - 1].value]
          /\ command.cp = LastOption("cp", k) /\ command.jre = LastOption("jre", k)
      BY <2>1, <2>2, <2>3, PlainMeant, Zenon
    <3>2. 1 \in 1 .. Len(line) - k + 1 /\ k + 1 - 1 = k
      BY <2>1
    <3>3. command.words[1] = line[k].value
      BY <3>1, <3>2, Zenon
    <3>. QED  BY <2>2, <3>1, <3>3, Zenon
  <2>4. (\A i \in DOMAIN line : line[i].kind /= "word" /\ (line[i].kind = "end" => i = Len(line)))
          => status = "printed"
    BY <2>1, <2>2, NoClassMeant, Zenon
  <2>. QED  BY <2>3, <2>4, Zenon DEF CommandMeant
<1>. QED  BY <1>1, <1>2, CommandInvNext, PTL DEF Spec
=============================================================================

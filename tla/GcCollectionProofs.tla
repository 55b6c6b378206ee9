------------------------- MODULE GcCollectionProofs -------------------------
(***************************************************************************)
(* Proofs about GcCollection for every number of paths, jobs, lines, files *)
(* and minutes: type correctness; that no acknowledged line is lost as     *)
(* long as no log reuses the inode number of an earlier one; and, each     *)
(* under the condition its theorem states, that no pause is split, no      *)
(* rejected line is reported as complete, no row is lost before its time   *)
(* and no pause is counted twice.                                          *)
(***************************************************************************)
EXTENDS GcCollection, TLAPS

(* The strengthening of AcknowledgedIsRecorded. *)

\* Files are intervals of the stream and the file being written is the last.
FilesInv ==
  /\ \A f \in DOMAIN files : files[f].first + files[f].size <= Len(stream)
  /\ dir[Current] = Len(files)
  /\ Len(files) > 0
  /\ files[Len(files)].first + files[Len(files)].size = Len(stream)

\* Every file has an inode number of its own.
FreshInodes == \A f \in DOMAIN files : files[f].ino = f

TypeInv == TypeOK /\ FilesInv

Committed(i) == \E m \in Minutes : <<i, m>> \in recorded

\* The lines that must leave a trace: pauses, and lines the parser rejects.
Marked == {"pause", "bad"}

\* Every such line before an offset is committed, or is among the lines in ids
\* that the holder of the offset is about to commit.
Covered(e, ids) ==
  /\ e.ino \in 0 .. Len(files)
  /\ \A f \in DOMAIN files : e.ino = f =>
       /\ e.offset <= files[f].size
       /\ \A i \in Span(f, 0, e.offset) : Kind(i) \in Marked => (Committed(i) \/ i \in ids)

OffsetsInv == \A p \in Paths : Covered(offsets[p], {})

PassFor(a) ==
  \A p \in Paths :
    /\ Covered(pass[a].prev[p], {})
    /\ Covered(pass[a].new[p], pass[a].got)

IInv == FreshInodes /\ OffsetsInv /\ \A a \in Actors : PassFor(a)

-----------------------------------------------------------------------------
(* Type correctness *)

LEMMA MinutesType == Minutes \subseteq Nat /\ 0 \in Minutes
  BY BoundAssumption DEF Minutes

LEMMA EntryType == NoEntry \in Entry /\ NoRows \in [Paths -> Entry]
  BY DEF NoEntry, Entry, NoRows

LEMMA IdleType == Idle \in PassRecord
  BY EntryType, MinutesType DEF Idle, PassRecord, Phases

LEMMA InitType == Init => TypeOK
<1> SUFFICES ASSUME Init PROVE TypeOK
  OBVIOUS
<1>1. stream \in Seq(Line) /\ files \in Seq(File) /\ Len(files) = 1
  BY DEF Init, File
<1>2. dir \in [Paths -> 0 .. Len(files)] /\ dir[Current] # 0
  BY <1>1 DEF Init, Paths
<1>3. offsets \in [Paths -> Entry] /\ pass \in [Actors -> PassRecord]
  BY EntryType, IdleType DEF Init
<1>4. metrics \in [Minutes -> SUBSET (1 .. Len(stream))] /\ quality \in [Minutes -> Outcomes]
  BY DEF Init, Outcomes
<1> QED
  BY <1>1, <1>2, <1>3, <1>4, MinutesType DEF Init, TypeOK

\* Replacing one element of a sequence.
LEMMA SeqUpdate ==
  ASSUME NEW S, NEW s \in Seq(S), NEW i \in 1 .. Len(s), NEW e \in S
  PROVE  /\ [s EXCEPT ![i] = e] \in Seq(S)
         /\ Len([s EXCEPT ![i] = e]) = Len(s)
         /\ \A j \in 1 .. Len(s) : [s EXCEPT ![i] = e][j] = IF j = i THEN e ELSE s[j]
  OBVIOUS

\* What a step of the world may do to the files: they grow, or a new one is
\* added at the end of the stream; written lines never change.
Grows ==
  /\ stream' \in Seq(Line)
  /\ Len(stream) <= Len(stream')
  /\ \A i \in 1 .. Len(stream) : stream'[i] = stream[i]
  /\ files' \in Seq(File)
  /\ Len(files) <= Len(files')
  /\ \A f \in 1 .. Len(files) :
       /\ files'[f].ino = files[f].ino
       /\ files'[f].first = files[f].first
       /\ files[f].size <= files'[f].size

\* A line written lengthens the last file, and no other.
LEMMA WriteLineFiles ==
  ASSUME TypeOK, FilesInv, NEW kind \in Kinds, NEW gc \in Nat, WriteLine(kind, gc)
  PROVE  /\ dir[Current] = Len(files) /\ Len(files) \in 1 .. Len(files)
         /\ files' \in Seq(File) /\ Len(files') = Len(files)
         /\ \A f \in 1 .. Len(files) :
              /\ files'[f].ino = files[f].ino /\ files'[f].first = files[f].first
              /\ files'[f].size = IF f = Len(files) THEN files[f].size + 1 ELSE files[f].size
              /\ files[f].ino \in Nat /\ files[f].first \in Nat /\ files[f].size \in Nat
<1> DEFINE n == Len(files)
           new == [files[n] EXCEPT !.size = @ + 1]
<1>1. n \in 1 .. Len(files) /\ dir[Current] = n /\ files[n] \in File
  BY DEF FilesInv, TypeOK
<1>2. new \in File /\ new.ino = files[n].ino /\ new.first = files[n].first /\ new.size = files[n].size + 1
  BY <1>1 DEF File
<1>3. files' = [files EXCEPT ![n] = new]
  BY <1>1 DEF WriteLine
<1>4. /\ files' \in Seq(File) /\ Len(files') = n
      /\ \A j \in 1 .. n : files'[j] = IF j = n THEN new ELSE files[j]
  <2>1. files \in Seq(File)
    BY DEF TypeOK
  <2> QED
    BY <1>1, <1>2, <1>3, <2>1, SeqUpdate
<1>5. \A f \in 1 .. n : files[f] \in File
  BY DEF TypeOK
<1>6. \A f \in 1 .. n : files[f].ino \in Nat /\ files[f].first \in Nat /\ files[f].size \in Nat
  BY <1>5 DEF File
<1> HIDE DEF new
<1> QED
  BY <1>1, <1>2, <1>4, <1>6

LEMMA WriteLineGrows ==
  ASSUME TypeOK, FilesInv, NEW kind \in Kinds, NEW gc \in Nat, WriteLine(kind, gc)
  PROVE  Grows /\ FilesInv' /\ (FreshInodes => FreshInodes')
<1> DEFINE n == Len(files)
<1>1. /\ dir[Current] = n /\ n \in 1 .. Len(files)
      /\ files' \in Seq(File) /\ Len(files') = n
      /\ \A f \in 1 .. n :
           /\ files'[f].ino = files[f].ino /\ files'[f].first = files[f].first
           /\ files'[f].size = IF f = n THEN files[f].size + 1 ELSE files[f].size
           /\ files[f].ino \in Nat /\ files[f].first \in Nat /\ files[f].size \in Nat
  BY WriteLineFiles
<1>2. /\ stream' \in Seq(Line)
      /\ Len(stream') = Len(stream) + 1 /\ Len(stream) \in Nat
      /\ \A i \in 1 .. Len(stream) : stream'[i] = stream[i]
  BY DEF WriteLine, TypeOK, Line
<1>3. Grows
  <2>1. \A f \in 1 .. n : files[f].size <= files'[f].size
    BY <1>1
  <2> QED
    BY <1>1, <1>2, <2>1 DEF Grows
<1>4. FilesInv'
  <2>1. dir' = dir /\ DOMAIN files' = 1 .. n /\ DOMAIN files = 1 .. n
    BY <1>1 DEF WriteLine, TypeOK
  <2>2. files'[n].first + files'[n].size = Len(stream')
    <3>1. files[n].first + files[n].size = Len(stream)
      BY DEF FilesInv
    <3>2. /\ files'[n].first = files[n].first /\ files'[n].size = files[n].size + 1
          /\ files[n].first \in Nat /\ files[n].size \in Nat
      BY <1>1
    <3> HIDE DEF n
    <3> QED
      BY <1>2, <3>1, <3>2
  <2>3. ASSUME NEW f \in 1 .. n PROVE files'[f].first + files'[f].size <= Len(stream')
    <3>1. CASE f = n
      BY <1>2, <2>2, <3>1
    <3>2. CASE f # n
      <4>1. files[f].first + files[f].size <= Len(stream)
        BY <2>1 DEF FilesInv
      <4>2. files'[f].first = files[f].first /\ files'[f].size = files[f].size
        BY <1>1, <3>2
      <4>3. files[f].first + files[f].size \in Nat
        BY <1>1
      <4> QED
        BY <1>2, <4>1, <4>2, <4>3
    <3> QED
      BY <3>1, <3>2
  <2> QED
    BY <1>1, <2>1, <2>2, <2>3 DEF FilesInv
<1>5. FreshInodes => FreshInodes'
  <2>1. DOMAIN files' = 1 .. n /\ DOMAIN files = 1 .. n
    BY <1>1 DEF TypeOK
  <2> QED
    BY <1>1, <2>1 DEF FreshInodes
<1> QED
  BY <1>3, <1>4, <1>5

\* A rotation adds an empty file at the end and gives it the current path.
LEMMA RotateFiles ==
  ASSUME TypeOK, Rotate
  PROVE  /\ files' \in Seq(File) /\ Len(files) \in Nat /\ Len(files') = Len(files) + 1
         /\ \A f \in 1 .. Len(files) : files'[f] = files[f]
         /\ files'[Len(files) + 1].first = Len(stream) /\ files'[Len(files) + 1].size = 0
         /\ IdentityReuse = FALSE => files'[Len(files) + 1].ino = Len(files) + 1
         /\ \E slot \in Archives : \A p \in Paths :
              dir'[p] = IF p = Current THEN Len(files) + 1 ELSE IF p = slot THEN dir[Current] ELSE dir[p]
         /\ dir' \in [Paths -> 0 .. Len(files) + 1]
<1> DEFINE n == Len(files)
           new(ino) == [ino |-> ino, first |-> Len(stream), size |-> 0]
           kept(slot) == [dir EXCEPT ![slot] = dir[Current], ![Current] = 0]
           free(slot) == IF IdentityReuse
                           THEN {files[f].ino : f \in DOMAIN files} \ LiveInodes(kept(slot))
                           ELSE {}
<1>1. PICK slot \in Archives :
        /\ \E ino \in free(slot) \cup {n + 1} : files' = Append(files, new(ino))
        /\ dir' = [kept(slot) EXCEPT ![Current] = n + 1]
  BY DEF Rotate
<1>2. n \in Nat /\ Len(stream) \in Nat /\ files \in Seq(File) /\ DOMAIN files = 1 .. n
  BY DEF TypeOK
<1>3. \A f \in 1 .. n : files[f].ino \in Nat
  <2>1. \A f \in 1 .. n : files[f] \in File
    BY <1>2
  <2> QED
    BY <2>1 DEF File
<1>4. PICK ino \in Nat : files' = Append(files, new(ino)) /\ (IdentityReuse = FALSE => ino = n + 1)
  <2>1. PICK ino \in free(slot) \cup {n + 1} : files' = Append(files, new(ino))
    BY <1>1
  <2>2. free(slot) \subseteq Nat /\ (IdentityReuse = FALSE => free(slot) = {})
    BY <1>2, <1>3
  <2> HIDE DEF new, free
  <2> QED
    BY <1>2, <2>1, <2>2
<1>5. new(ino) \in File /\ new(ino).ino = ino /\ new(ino).first = Len(stream) /\ new(ino).size = 0
  BY <1>2 DEF File
<1>6. /\ files' \in Seq(File) /\ Len(files') = n + 1 /\ files'[n + 1] = new(ino)
      /\ \A f \in 1 .. n : files'[f] = files[f]
  <2> HIDE DEF new
  <2> QED
    BY <1>2, <1>4, <1>5
<1>7. dir' \in [Paths -> 0 .. n + 1]
  BY <1>1, <1>2 DEF TypeOK, Paths
<1>8. \A p \in Paths :
        dir'[p] = IF p = Current THEN n + 1 ELSE IF p = slot THEN dir[Current] ELSE dir[p]
  BY <1>1 DEF TypeOK, Paths
<1> QED
  BY <1>2, <1>4, <1>5, <1>6, <1>7, <1>8

LEMMA RotateGrows ==
  ASSUME TypeOK, FilesInv, Rotate
  PROVE  /\ Grows /\ FilesInv' /\ dir' \in [Paths -> 0 .. Len(files')] /\ dir'[Current] # 0
         /\ IdentityReuse = FALSE /\ FreshInodes => FreshInodes'
<1> DEFINE n == Len(files)
<1>1. /\ files' \in Seq(File) /\ n \in Nat /\ Len(files') = n + 1
      /\ \A f \in 1 .. n : files'[f] = files[f]
      /\ files'[n + 1].first = Len(stream) /\ files'[n + 1].size = 0
      /\ IdentityReuse = FALSE => files'[n + 1].ino = n + 1
      /\ dir' \in [Paths -> 0 .. n + 1] /\ dir'[Current] = n + 1
      /\ DOMAIN files = 1 .. n /\ DOMAIN files' = 1 .. n + 1
  <2>1. /\ files' \in Seq(File) /\ n \in Nat /\ Len(files') = n + 1
        /\ \A f \in 1 .. n : files'[f] = files[f]
        /\ files'[n + 1].first = Len(stream) /\ files'[n + 1].size = 0
        /\ IdentityReuse = FALSE => files'[n + 1].ino = n + 1
        /\ dir' \in [Paths -> 0 .. n + 1]
    BY RotateFiles
  <2>2. dir'[Current] = n + 1
    BY RotateFiles DEF Paths
  <2>3. DOMAIN files = 1 .. n
    BY DEF TypeOK
  <2> QED
    BY <2>1, <2>2, <2>3
<1>2. \A f \in 1 .. n : files[f].size \in Nat
  <2>1. \A f \in 1 .. n : files[f] \in File
    BY DEF TypeOK
  <2> QED
    BY <2>1 DEF File
<1>3. stream' = stream /\ stream \in Seq(Line) /\ Len(stream) \in Nat
  BY DEF Rotate, TypeOK
<1>4. Grows
  BY <1>1, <1>2, <1>3 DEF Grows
<1>5. FilesInv'
  <2>1. \A f \in 1 .. n + 1 : files'[f].first + files'[f].size <= Len(stream)
    BY <1>1, <1>3 DEF FilesInv
  <2> QED
    BY <1>1, <1>3, <2>1 DEF FilesInv
<1>6. IdentityReuse = FALSE /\ FreshInodes => FreshInodes'
  BY <1>1 DEF FreshInodes
<1> QED
  BY <1>1, <1>4, <1>5, <1>6

-----------------------------------------------------------------------------
(* Type correctness of the steps *)

\* The positions a read adds are positions of the stream.
LEMMA SpanType ==
  ASSUME TypeInv, NEW f \in DOMAIN files, NEW lo \in Nat, NEW hi \in Nat, hi <= files[f].size
  PROVE  Span(f, lo, hi) \subseteq 1 .. Len(stream)
<1>1. files[f] \in File
  BY DEF TypeInv, TypeOK
<1>2. files[f].first \in Nat /\ files[f].size \in Nat
  BY <1>1 DEF File
<1>3. files[f].first + files[f].size <= Len(stream) /\ Len(stream) \in Nat
  BY DEF TypeInv, FilesInv, TypeOK
<1>4. ASSUME NEW i \in files[f].first + lo + 1 .. files[f].first + hi
      PROVE  i \in 1 .. Len(stream)
  BY <1>2, <1>3
<1> QED
  BY <1>4 DEF Span

LEMMA LogType ==
  ASSUME TypeInv, Log
  PROVE  TypeInv' /\ Grows
<1> USE DEF TypeInv
<1>1. ASSUME Grows, FilesInv', dir' \in [Paths -> 0 .. Len(files')], dir'[Current] # 0,
             open' \in Nat, torn' \subseteq 1 .. Len(stream'),
             UNCHANGED <<minute, dbVars, pass, running, lastPass>>
      PROVE  TypeInv'
  <2>1. 1 .. Len(stream) \subseteq 1 .. Len(stream')
    BY <1>1 DEF Grows, TypeOK
  <2>2. metrics' \in [Minutes -> SUBSET (1 .. Len(stream'))]
    BY <1>1, <2>1 DEF TypeOK, dbVars
  <2>3. recorded' \subseteq (1 .. Len(stream')) \X Minutes
    BY <1>1, <2>1 DEF TypeOK, dbVars
  <2>4. PassRecord \subseteq PassRecord'
    BY <2>1 DEF PassRecord
  <2>5. pass' \in [Actors -> PassRecord']
    BY <1>1, <2>4 DEF TypeOK
  <2> QED
    BY <1>1, <2>2, <2>3, <2>5 DEF TypeOK, Grows, dbVars
<1>2. ASSUME NEW kind \in Kinds, NEW gc \in Nat, WriteLine(kind, gc), open' \in Nat
      PROVE  TypeInv' /\ Grows
  <2>1. Grows /\ FilesInv'
    BY <1>2, WriteLineGrows
  <2>2. UNCHANGED <<dir, torn, minute, dbVars, pass, running, lastPass>>
    BY <1>2 DEF WriteLine
  <2>3. /\ dir' \in [Paths -> 0 .. Len(files')] /\ dir'[Current] # 0
        /\ torn' \subseteq 1 .. Len(stream')
    BY <2>1, <2>2 DEF TypeOK, Grows
  <2> QED
    BY <1>1, <1>2, <2>1, <2>2, <2>3
<1>3. NewGc \in Nat /\ open \in Nat
  BY DEF NewGc, TypeOK
<1>4. CASE LogPause
  BY <1>2, <1>3, <1>4 DEF LogPause, Kinds
<1>5. CASE LogStart
  BY <1>2, <1>3, <1>5 DEF LogStart, Kinds
<1>6. CASE LogNote
  BY <1>2, <1>3, <1>6 DEF LogNote, Kinds
<1>7. CASE LogBad
  BY <1>2, <1>3, <1>7 DEF LogBad, Kinds
<1>8. CASE JvmRestart
  <2>1. UNCHANGED <<stream, files, dir, torn, minute, dbVars, pass, running, lastPass>> /\ open' = 0
    BY <1>8 DEF JvmRestart
  <2>2. Grows
    <3>1. \A f \in 1 .. Len(files) : files[f] \in File
      BY DEF TypeOK
    <3>2. \A f \in 1 .. Len(files) : files[f].size \in Nat
      BY <3>1 DEF File
    <3>3. stream' = stream /\ files' = files /\ stream \in Seq(Line) /\ files \in Seq(File)
      BY <2>1 DEF TypeOK
    <3> QED
      BY <3>2, <3>3 DEF Grows
  <2>3. FilesInv'
    BY <2>1 DEF FilesInv
  <2> QED
    BY <1>1, <2>1, <2>2, <2>3 DEF TypeOK
<1>9. CASE Rotate
  <2>1. UNCHANGED <<stream, open, minute, dbVars, pass, running, lastPass>>
    BY <1>9 DEF Rotate
  <2>2. dir[Current] \in DOMAIN files /\ files[dir[Current]] \in File
    BY DEF FilesInv, TypeOK
  <2>3. files[dir[Current]].size \in Nat
    BY <2>2 DEF File
  <2>4. Span(dir[Current], 0, files[dir[Current]].size) \subseteq 1 .. Len(stream)
    BY <2>2, <2>3, SpanType
  <2>5. torn' \subseteq 1 .. Len(stream')
    BY <1>9, <2>1, <2>4 DEF Rotate, TypeOK
  <2> QED
    BY <1>1, <1>3, <1>9, <2>1, <2>5, RotateGrows
<1> QED
  BY <1>4, <1>5, <1>6, <1>7, <1>8, <1>9 DEF Log

\* Steps that leave the log files alone keep TypeInv if they keep the type of
\* the tables and of the passes.
LEMMA StepType ==
  ASSUME TypeInv, UNCHANGED logVars,
         minute' \in Minutes, lastPass' \in Minutes \cup {-1}, running' \in BOOLEAN,
         offsets' \in [Paths -> Entry],
         metrics' \in [Minutes -> SUBSET (1 .. Len(stream))],
         quality' \in [Minutes -> Outcomes],
         recorded' \subseteq (1 .. Len(stream)) \X Minutes,
         pass' \in [Actors -> PassRecord]
  PROVE  TypeInv'
<1>1. PassRecord' = PassRecord
  BY DEF PassRecord, logVars
<1>2. FilesInv'
  BY DEF TypeInv, FilesInv, logVars
<1>3. TypeOK'
  BY <1>1 DEF TypeInv, TypeOK, logVars
<1> QED
  BY <1>2, <1>3 DEF TypeInv

LEMMA ReadType ==
  ASSUME TypeInv, NEW a \in Actors, NEW p \in Paths, ReadPath(a, p)
  PROVE  TypeInv'
<1>1. pass[a] \in PassRecord /\ pass \in [Actors -> PassRecord]
  BY DEF TypeInv, TypeOK
<1>2. UNCHANGED <<logVars, minute, dbVars, running, lastPass>>
  BY DEF ReadPath
<1> DEFINE f == dir[p]
<1>3. f \in DOMAIN files /\ files[f] \in File
  <2>1. files \in Seq(File) /\ f \in 0 .. Len(files)
    BY DEF TypeInv, TypeOK
  <2>2. f # 0
    BY DEF ReadPath
  <2>3. f \in 1 .. Len(files)
    BY <2>1, <2>2
  <2> QED
    BY <2>1, <2>3
<1>4. files[f].ino \in Nat /\ files[f].size \in Nat
  BY <1>3 DEF File
<1>5. pass' \in [Actors -> PassRecord]
  <2>1. CASE pass' = [pass EXCEPT ![a].todo = @ \ {p}]
    BY <1>1, <2>1 DEF PassRecord
  <2>2. ASSUME NEW start \in 0 .. files[f].size, NEW keep \in start .. files[f].size,
               pass' = [pass EXCEPT
                     ![a].todo = @ \ {p},
                     ![a].seen = @ \cup {files[f].ino},
                     ![a].got = @ \cup Span(f, start, keep),
                     ![a].new[p] = [ino |-> files[f].ino, offset |-> keep]]
        PROVE  pass' \in [Actors -> PassRecord]
    <3>1. start \in Nat /\ keep \in Nat /\ keep <= files[f].size
      BY <1>4
    <3>2. Span(f, start, keep) \subseteq 1 .. Len(stream)
      BY <1>3, <3>1, SpanType
    <3>3. [ino |-> files[f].ino, offset |-> keep] \in Entry
      BY <1>4, <3>1 DEF Entry
    <3>4. [pass[a].new EXCEPT ![p] = [ino |-> files[f].ino, offset |-> keep]] \in [Paths -> Entry]
      BY <1>1, <3>3 DEF PassRecord
    <3> HIDE DEF f
    <3>5. [pass[a] EXCEPT !.todo = @ \ {p}, !.seen = @ \cup {files[f].ino},
                          !.got = @ \cup Span(f, start, keep),
                          !.new = [pass[a].new EXCEPT ![p] = [ino |-> files[f].ino, offset |-> keep]]]
            \in PassRecord
      BY <1>1, <1>4, <3>2, <3>4 DEF PassRecord
    <3> QED
      BY <1>1, <2>2, <3>5
  <2> QED
    BY <2>1, <2>2 DEF ReadPath
<1> QED
  BY <1>2, <1>5, StepType DEF TypeInv, TypeOK, dbVars

LEMMA RowsType ==
  ASSUME TypeInv, NEW a \in Actors
  PROVE  /\ Rows(a) \in [Minutes -> SUBSET (1 .. Len(stream))]
         /\ Pauses(pass[a].got) \subseteq 1 .. Len(stream)
         /\ Skipped(pass[a].got) \subseteq 1 .. Len(stream)
         /\ pass[a].ts \in Minutes
BY DEF TypeInv, TypeOK, PassRecord, Rows, Pauses, Skipped

LEMMA RecordType ==
  ASSUME TypeInv, NEW a \in Actors,
         UNCHANGED <<logVars, minute, lastPass>>,
         running' \in BOOLEAN, pass' \in [Actors -> PassRecord],
         Record(a) \/ RecordNothing(a)
  PROVE  TypeInv'
<1>1. minute' \in Minutes /\ lastPass' \in Minutes \cup {-1}
  BY DEF TypeInv, TypeOK
<1>2. /\ metrics \in [Minutes -> SUBSET (1 .. Len(stream))] /\ quality \in [Minutes -> Outcomes]
      /\ offsets \in [Paths -> Entry] /\ recorded \subseteq (1 .. Len(stream)) \X Minutes
      /\ pass[a].new \in [Paths -> Entry]
  BY DEF TypeInv, TypeOK, PassRecord
<1>3. CASE Record(a)
  <2>1. metrics' \in [Minutes -> SUBSET (1 .. Len(stream))]
    BY <1>2, <1>3, RowsType DEF Record
  <2>2. offsets' \in [Paths -> Entry]
    BY <1>2, <1>3 DEF Record
  <2>3. quality' \in [Minutes -> Outcomes]
    BY <1>2, <1>3 DEF Record, Outcome, Outcomes
  <2>4. recorded' \subseteq (1 .. Len(stream)) \X Minutes
    BY <1>2, <1>3, RowsType DEF Record
  <2> QED
    BY <1>1, <2>1, <2>2, <2>3, <2>4, StepType
<1>4. CASE RecordNothing(a)
  <2>1. metrics' \in [Minutes -> SUBSET (1 .. Len(stream))] /\ quality' \in [Minutes -> Outcomes]
    BY <1>2, <1>4 DEF RecordNothing, Outcomes
  <2> QED
    BY <1>1, <1>2, <1>4, <2>1, StepType DEF RecordNothing
<1> QED
  BY <1>3, <1>4

\* The steps of a pass other than a read and a commit.
LEMMA ControlType ==
  ASSUME TypeInv,
         TickLoad \/ TickStart \/ TickRelease \/ TickAbort \/ Crash
           \/ \E j \in Jobs : Submit(j) \/ JobStart(j) \/ JobFail(j)
  PROVE  TypeInv'
<1>1. UNCHANGED <<logVars, minute, dbVars>>
  BY DEF TickLoad, TickStart, TickRelease, TickAbort, Crash, Submit, JobStart, JobFail
<1>2. /\ pass \in [Actors -> PassRecord] /\ offsets \in [Paths -> Entry] /\ minute \in Minutes
      /\ lastPass \in Minutes \cup {-1} /\ running \in BOOLEAN
  BY DEF TypeInv, TypeOK
<1>3. Tick \in Actors /\ Jobs \subseteq Actors /\ Listed \in SUBSET Paths
  BY DEF Actors, Listed
<1>4. lastPass' \in Minutes \cup {-1} /\ running' \in BOOLEAN
  BY <1>2 DEF TickLoad, TickStart, TickRelease, TickAbort, Crash, Submit, JobStart, JobFail
<1>5. pass' \in [Actors -> PassRecord]
  <2>1. CASE TickLoad
    <3>1. [Idle EXCEPT !.phase = "loaded", !.ts = minute, !.prev = offsets] \in PassRecord
      BY <1>2, EntryType DEF Idle, PassRecord, Phases
    <3> QED
      BY <1>2, <2>1, <3>1 DEF TickLoad
  <2>2. CASE TickStart
    <3>1. [pass[Tick] EXCEPT !.phase = "reading", !.todo = Listed] \in PassRecord
      BY <1>2, <1>3 DEF PassRecord, Phases
    <3> QED
      BY <1>2, <1>3, <2>2, <3>1 DEF TickStart
  <2>3. CASE TickRelease
    <3>1. [pass[Tick] EXCEPT !.phase = "released"] \in PassRecord
      BY <1>2, <1>3 DEF PassRecord, Phases
    <3> QED
      BY <1>2, <1>3, <2>3, <3>1 DEF TickRelease
  <2>4. CASE Crash
    BY <2>4, IdleType DEF Crash
  <2>5. ASSUME NEW j \in Jobs, Submit(j)
        PROVE  pass' \in [Actors -> PassRecord]
    <3>1. [pass[j] EXCEPT !.phase = "queued"] \in PassRecord
      BY <1>2, <1>3 DEF PassRecord, Phases
    <3> QED
      BY <1>2, <1>3, <2>5, <3>1 DEF Submit
  <2>6. ASSUME NEW j \in Jobs, JobStart(j)
        PROVE  pass' \in [Actors -> PassRecord]
    <3>1. PICK mode \in Modes :
            LET incremental == mode # "full" /\ HasHistory
            IN pass' = [pass EXCEPT ![j] =
                 [Idle EXCEPT !.phase = "reading", !.ts = minute, !.incremental = incremental,
                              !.prev = IF incremental THEN offsets ELSE NoRows,
                              !.todo = Listed]]
      BY <2>6 DEF JobStart
    <3>2. ASSUME NEW incremental \in BOOLEAN
          PROVE  [Idle EXCEPT !.phase = "reading", !.ts = minute, !.incremental = incremental,
                              !.prev = IF incremental THEN offsets ELSE NoRows,
                              !.todo = Listed] \in PassRecord
      BY <1>2, <1>3, EntryType DEF Idle, PassRecord, Phases
    <3> QED
      BY <1>2, <3>1, <3>2
  <2>7. ASSUME NEW j \in Jobs, JobFail(j)
        PROVE  pass' \in [Actors -> PassRecord]
    BY <1>2, <2>7, IdleType DEF JobFail
  <2>8. CASE TickAbort
    BY <1>2, <2>8, IdleType DEF TickAbort
  <2> QED
    BY <2>1, <2>2, <2>3, <2>4, <2>5, <2>6, <2>7, <2>8
<1> QED
  BY <1>1, <1>4, <1>5, StepType DEF TypeInv, TypeOK, dbVars

LEMMA CommitType ==
  ASSUME TypeInv, TickCommit \/ TickFail \/ \E j \in Jobs : JobCommit(j)
  PROVE  TypeInv'
<1>1. pass \in [Actors -> PassRecord] /\ running \in BOOLEAN
  BY DEF TypeInv, TypeOK
<1>2. \A a \in Actors : [pass EXCEPT ![a] = Idle] \in [Actors -> PassRecord]
  BY <1>1, IdleType
<1>3. PICK a \in Actors :
        /\ Record(a) \/ RecordNothing(a)
        /\ pass' = [pass EXCEPT ![a] = Idle]
        /\ running' \in BOOLEAN
        /\ UNCHANGED <<logVars, minute, lastPass>>
  BY <1>1 DEF TickCommit, TickFail, JobCommit, Actors
<1> QED
  BY <1>2, <1>3, RecordType

LEMMA NextType == TypeInv /\ [Next]_vars => TypeInv'
<1> SUFFICES ASSUME TypeInv, [Next]_vars PROVE TypeInv'
  OBVIOUS
<1>1. CASE Log
  BY <1>1, LogType
<1>2. CASE NextMinute
  <2>1. minute' \in Minutes
    BY <1>2, BoundAssumption DEF NextMinute, TypeInv, TypeOK, Minutes
  <2> QED
    BY <1>2, <2>1, StepType DEF NextMinute, TypeInv, TypeOK, dbVars
<1>3. CASE \E a \in Actors, p \in Paths : ReadPath(a, p)
  BY <1>3, ReadType
<1>4. CASE TickCommit \/ TickFail \/ \E j \in Jobs : JobCommit(j)
  BY <1>4, CommitType
<1>5. CASE TickLoad \/ TickStart \/ TickRelease \/ TickAbort \/ Crash
             \/ \E j \in Jobs : Submit(j) \/ JobStart(j) \/ JobFail(j)
  BY <1>5, ControlType
<1>6. CASE UNCHANGED vars
  BY <1>6, StepType DEF TypeInv, TypeOK, vars, logVars
<1> QED
  BY <1>1, <1>2, <1>3, <1>4, <1>5, <1>6 DEF Next, Work, Fault, TickStep, JobStep, JobRun, Actors

LEMMA InitTypeInv == Init => TypeInv
<1>1. ASSUME Init PROVE FilesInv
  <2>1. Len(files) = 1 /\ DOMAIN files = {1} /\ files[1] = [ino |-> 1, first |-> 0, size |-> 0]
    BY <1>1 DEF Init
  <2>2. dir[Current] = 1 /\ Len(stream) = 0
    BY <1>1 DEF Init, Paths
  <2> QED
    BY <2>1, <2>2 DEF FilesInv
<1> QED
  BY <1>1, InitType DEF TypeInv

\* Every variable keeps its type: in particular every position in a row or in
\* a pass's memory is one of a line the JVM has written, and rows and outcomes
\* are of minutes that exist (GcCollection's TypeOK, for all constants).
THEOREM TypeCorrect == Spec => []TypeOK
<1>1. Init => TypeInv
  BY InitTypeInv
<1>2. TypeInv => TypeOK
  BY DEF TypeInv
<1> QED
  BY <1>1, <1>2, NextType, PTL DEF Spec

-----------------------------------------------------------------------------
(* No silent loss *)

\* What is covered stays covered while files grow and commits add up.
LEMMA CoveredStable ==
  ASSUME TypeInv, TypeInv', Grows, recorded \subseteq recorded',
         NEW e \in Entry, NEW ids, Covered(e, ids)
  PROVE  Covered(e, ids)'
<1>1. /\ DOMAIN files = 1 .. Len(files) /\ DOMAIN files' = 1 .. Len(files')
      /\ Len(files) \in Nat /\ Len(files') \in Nat /\ Len(files) <= Len(files')
      /\ Len(stream) \in Nat
  BY DEF TypeInv, TypeOK, Grows
<1>2. e.ino \in 1 .. Len(files) \/ e.ino = 0
  BY <1>1 DEF Covered
<1>3. CASE e.ino = 0
  BY <1>1, <1>3 DEF Covered
<1>4. ASSUME e.ino \in 1 .. Len(files)
      PROVE  Covered(e, ids)'
  <2> DEFINE f == e.ino
  <2>1. /\ files[f] \in File /\ files'[f] \in File
        /\ files'[f].first = files[f].first /\ files[f].size <= files'[f].size
    BY <1>1, <1>4 DEF Grows, TypeInv, TypeOK
  <2>2. /\ files[f].first \in Nat /\ files[f].size \in Nat /\ files'[f].size \in Nat
        /\ e.offset \in Nat
    BY <2>1 DEF File, Entry
  <2>3. e.offset <= files[f].size /\ files[f].first + files[f].size <= Len(stream)
    BY <1>1, <1>4 DEF Covered, TypeInv, FilesInv
  <2>4. e.offset <= files'[f].size
    BY <2>1, <2>2, <2>3
  <2>5. ASSUME NEW i \in files[f].first + 0 + 1 .. files[f].first + e.offset,
               stream'[i].kind \in Marked
        PROVE  (\E m \in Minutes : <<i, m>> \in recorded') \/ i \in ids
    <3>1. i \in 1 .. Len(stream)
      BY <1>1, <2>2, <2>3
    <3>2. stream[i].kind \in Marked
      BY <2>5, <3>1 DEF Grows
    <3>3. (\E m \in Minutes : <<i, m>> \in recorded) \/ i \in ids
      BY <1>1, <1>4, <3>2 DEF Covered, Committed, Span, Kind
    <3> QED
      BY <3>3
  <2> QED
    BY <1>1, <1>4, <2>1, <2>4, <2>5 DEF Covered, Committed, Span, Kind
<1> QED
  BY <1>2, <1>3, <1>4

\* A pass that keeps its offsets and lines, and one that begins, stay covered.
LEMMA PassForStable ==
  ASSUME TypeInv, TypeInv', Grows, recorded \subseteq recorded', OffsetsInv,
         NEW a \in Actors, PassFor(a),
         \/ /\ pass'[a].prev = pass[a].prev
            /\ pass'[a].new = pass[a].new
            /\ pass'[a].got = pass[a].got
         \/ /\ pass'[a].prev \in {offsets, NoRows}
            /\ pass'[a].new = NoRows
  PROVE  PassFor(a)'
<1> SUFFICES ASSUME NEW p \in Paths
             PROVE  /\ Covered(pass[a].prev[p], {})'
                    /\ Covered(pass[a].new[p], pass[a].got)'
  BY DEF PassFor
<1>1. ASSUME NEW ids PROVE Covered(NoEntry, ids)'
  <2>1. 0 \in 0 .. Len(files)' /\ \A f \in DOMAIN files' : f # 0
    BY DEF TypeInv, TypeOK
  <2> QED
    BY <2>1 DEF Covered, NoEntry
<1>2. /\ pass[a].prev[p] \in Entry /\ pass[a].new[p] \in Entry /\ offsets[p] \in Entry
      /\ NoRows[p] = NoEntry
  BY DEF TypeInv, TypeOK, PassRecord, NoRows
<1>3. /\ Covered(pass[a].prev[p], {}) /\ Covered(pass[a].new[p], pass[a].got)
      /\ Covered(offsets[p], {})
  BY DEF PassFor, OffsetsInv
<1>4. PICK e1 \in Entry, e2 \in Entry, ids \in SUBSET (1 .. Len(stream')) :
        e1 = pass'[a].prev[p] /\ e2 = pass'[a].new[p] /\ ids = pass'[a].got
  BY DEF TypeInv, TypeOK, PassRecord
<1>5. Covered(e1, {})'
  <2>1. CASE e1 = NoEntry
    BY <1>1, <2>1
  <2>2. CASE Covered(e1, {})
    BY <2>2, CoveredStable
  <2> QED
    BY <1>2, <1>3, <1>4, <2>1, <2>2
<1>6. Covered(e2, ids)'
  <2>1. CASE e2 = NoEntry
    BY <1>1, <2>1
  <2>2. CASE Covered(e2, ids)
    BY <2>2, CoveredStable
  <2> QED
    BY <1>2, <1>3, <1>4, <2>1, <2>2
<1> QED
  BY <1>4, <1>5, <1>6 DEF Covered, Committed, Span, Kind

LEMMA OffsetsStable ==
  ASSUME TypeInv, TypeInv', Grows, recorded \subseteq recorded', OffsetsInv, UNCHANGED offsets
  PROVE  OffsetsInv'
<1>1. ASSUME NEW p \in Paths PROVE Covered(offsets[p], {})'
  <2>1. PICK e \in Entry : e = offsets[p]
    BY DEF TypeInv, TypeOK
  <2>2. Covered(e, {})
    BY <2>1 DEF OffsetsInv
  <2>3. Covered(e, {})'
    BY <2>2, CoveredStable
  <2> QED
    BY <2>1, <2>3 DEF Covered, Committed, Span, Kind
<1> QED
  BY <1>1 DEF OffsetsInv

\* Steps that leave the log files alone.
LEMMA SameGrows ==
  ASSUME TypeInv, UNCHANGED logVars
  PROVE  Grows /\ (FreshInodes => FreshInodes')
<1>1. \A f \in 1 .. Len(files) : files[f] \in File
  BY DEF TypeInv, TypeOK
<1>2. \A f \in 1 .. Len(files) : files[f].size \in Nat
  BY <1>1 DEF File
<1> QED
  BY <1>2 DEF Grows, TypeInv, TypeOK, logVars, FreshInodes

\* The new offset of a path covers what the pass had before plus what it read.
LEMMA ReadCovered ==
  ASSUME TypeInv, TypeInv', IInv, NEW a \in Actors, NEW p \in Paths, ReadPath(a, p)
  PROVE  IInv'
<1>1. UNCHANGED <<logVars, minute, dbVars, running, lastPass>>
  BY DEF ReadPath
<1>2. Grows /\ FreshInodes' /\ OffsetsInv'
  BY <1>1, SameGrows, OffsetsStable DEF IInv, dbVars
<1>3. /\ pass \in [Actors -> PassRecord] /\ pass[a] \in PassRecord
      /\ \A q \in Paths : pass[a].prev[q] \in Entry /\ pass[a].new[q] \in Entry
  BY DEF TypeInv, TypeOK, PassRecord
<1>4. recorded' = recorded
  BY <1>1 DEF dbVars
<1>5. ASSUME NEW b \in Actors, b # a PROVE PassFor(b)'
  <2>1. pass'[b] = pass[b]
    BY <1>3, <1>5 DEF ReadPath
  <2> QED
    BY <1>2, <1>4, <2>1, PassForStable DEF IInv
<1> DEFINE f == dir[p]
<1>6. f \in 1 .. Len(files) /\ files[f] \in File /\ files[f].ino = f
  <2>1. files \in Seq(File) /\ f \in 0 .. Len(files)
    BY DEF TypeInv, TypeOK
  <2>2. f # 0
    BY DEF ReadPath
  <2> QED
    BY <2>1, <2>2 DEF IInv, FreshInodes
<1>7. files[f].first \in Nat /\ files[f].size \in Nat
  BY <1>6 DEF File
<1>8. PassFor(a)'
  <2>1. CASE pass' = [pass EXCEPT ![a].todo = @ \ {p}]
    <3>1. pass'[a].prev = pass[a].prev /\ pass'[a].new = pass[a].new /\ pass'[a].got = pass[a].got
      BY <1>3, <2>1 DEF PassRecord
    <3> QED
      BY <1>2, <1>4, <3>1, PassForStable DEF IInv
  <2>2. ASSUME NEW start \in 0 .. files[f].size, NEW keep \in start .. files[f].size,
               IsResumePoint(start, pass[a].prev, files[f].ino, files[f].size),
               pass' = [pass EXCEPT
                     ![a].todo = @ \ {p},
                     ![a].seen = @ \cup {files[f].ino},
                     ![a].got = @ \cup Span(f, start, keep),
                     ![a].new[p] = [ino |-> files[f].ino, offset |-> keep]]
        PROVE  PassFor(a)'
    <3> DEFINE e == [ino |-> f, offset |-> keep]
               got == pass[a].got \cup Span(f, start, keep)
    <3>1. start \in Nat /\ keep \in Nat /\ start <= keep /\ keep <= files[f].size
      BY <1>7
    <3>2. /\ pass'[a].prev = pass[a].prev
          /\ pass'[a].got = got
          /\ \A q \in Paths : pass'[a].new[q] = IF q = p THEN e ELSE pass[a].new[q]
      BY <1>3, <1>6, <2>2 DEF PassRecord
    <3>3. ASSUME NEW i \in Span(f, 0, start), Kind(i) \in Marked PROVE Committed(i)
      <4>1. CASE start = 0
        BY <1>7, <3>3, <4>1 DEF Span
      <4>2. ASSUME NEW q \in Paths, pass[a].prev[q].ino = f, pass[a].prev[q].offset = start
            PROVE  Committed(i)
        <5>1. Covered(pass[a].prev[q], {}) /\ f \in DOMAIN files
          BY <1>6 DEF IInv, PassFor, TypeInv, TypeOK
        <5> HIDE DEF f
        <5> QED
          BY <3>3, <4>2, <5>1 DEF Covered
      <4>3. start = 0 \/ \E q \in Paths : pass[a].prev[q].ino = f /\ pass[a].prev[q].offset = start
        BY <1>6, <2>2 DEF IsResumePoint, Candidates
      <4> QED
        BY <4>1, <4>2, <4>3
    <3>4. ASSUME NEW i \in Span(f, 0, keep), Kind(i) \in Marked PROVE Committed(i) \/ i \in got
      <4>1. i \in Span(f, 0, start) \/ i \in Span(f, start, keep)
        BY <1>7, <3>1 DEF Span
      <4> QED
        BY <3>3, <3>4, <4>1
    <3>5. Covered(e, got)
      BY <1>6, <3>1, <3>4 DEF Covered, TypeInv, TypeOK
    <3>6. \A q \in Paths : Covered(pass[a].new[q], got)
      BY DEF IInv, PassFor, Covered
    <3> HIDE DEF e, got
    <3>7. ASSUME NEW q \in Paths
          PROVE  Covered(pass'[a].prev[q], {}) /\ Covered(pass'[a].new[q], pass'[a].got)
      BY <3>2, <3>5, <3>6 DEF IInv, PassFor
    <3> QED
      BY <1>1, <1>4, <3>7 DEF PassFor, Covered, Committed, Span, Kind, logVars
  <2> QED
    BY <2>1, <2>2 DEF ReadPath
<1> QED
  BY <1>2, <1>5, <1>8 DEF IInv

\* A commit records every pause and every rejected line the pass has read.
LEMMA RecordCommits ==
  ASSUME TypeInv, NEW a \in Actors, Record(a)
  PROVE  /\ recorded \subseteq recorded'
         /\ \A i \in pass[a].got : Kind(i) \in Marked => \E m \in Minutes : <<i, m>> \in recorded'
<1>1. recorded \subseteq recorded'
  BY DEF Record
<1>2. ASSUME NEW i \in pass[a].got, Kind(i) = "pause"
      PROVE  \E m \in Minutes : <<i, m>> \in recorded'
  <2>1. pass[a].ts \in Minutes /\ i \in 1 .. Len(stream) /\ stream \in Seq(Line)
    BY DEF TypeInv, TypeOK, PassRecord
  <2>2. stream[i].at \in Minutes
    <3>1. stream[i] \in Line
      BY <2>1
    <3> QED
      BY <3>1 DEF Line
  <2>3. i \in Pauses(pass[a].got)
    BY <1>2 DEF Pauses
  <2>4. ASSUME NEW m \in Minutes, i \in Rows(a)[m]
        PROVE  <<i, m>> \in recorded'
    <3>1. <<i, m>> \in {e \in Pauses(pass[a].got) \X Minutes : e[1] \in Rows(a)[e[2]]}
      BY <2>3, <2>4
    <3> QED
      BY <3>1 DEF Record
  <2>5. CASE pass[a].incremental
    <3>1. i \in Rows(a)[pass[a].ts]
      BY <2>1, <2>3, <2>5 DEF Rows
    <3> QED
      BY <2>1, <2>4, <3>1
  <2>6. CASE ~pass[a].incremental
    <3>1. i \in Rows(a)[stream[i].at]
      BY <2>2, <2>3, <2>6 DEF Rows
    <3> QED
      BY <2>2, <2>4, <3>1
  <2> QED
    BY <2>5, <2>6
<1>3. ASSUME NEW i \in pass[a].got, Kind(i) = "bad"
      PROVE  \E m \in Minutes : <<i, m>> \in recorded'
  <2>1. i \in Skipped(pass[a].got) /\ pass[a].ts \in Minutes
    BY <1>3, RowsType DEF Skipped
  <2>2. <<i, pass[a].ts>> \in recorded'
    BY <2>1 DEF Record
  <2> QED
    BY <2>1, <2>2
<1> QED
  BY <1>1, <1>2, <1>3 DEF Marked

LEMMA CommitCovered ==
  ASSUME TypeInv, TypeInv', IInv, TickCommit \/ TickFail \/ \E j \in Jobs : JobCommit(j)
  PROVE  IInv'
<1>1. PICK a \in Actors :
        /\ Record(a) \/ RecordNothing(a)
        /\ pass' = [pass EXCEPT ![a] = Idle]
        /\ UNCHANGED logVars
  BY DEF TickCommit, TickFail, JobCommit, Actors
<1>2. Grows /\ FreshInodes'
  BY <1>1, SameGrows DEF IInv
<1>3. recorded \subseteq recorded'
  BY <1>1, RecordCommits DEF RecordNothing
<1>4. ASSUME NEW b \in Actors PROVE PassFor(b)'
  <2>1. pass'[b] = pass[b] \/ pass'[b] = Idle
    BY <1>1 DEF TypeInv, TypeOK
  <2>2. Idle.prev = NoRows /\ Idle.new = NoRows
    BY DEF Idle
  <2> QED
    BY <1>2, <1>3, <2>1, <2>2, PassForStable DEF IInv
<1>5. CASE RecordNothing(a)
  <2>1. UNCHANGED offsets
    BY <1>5 DEF RecordNothing
  <2> QED
    BY <1>2, <1>3, <1>4, <2>1, OffsetsStable DEF IInv
<1>6. CASE Record(a)
  <2>1. ASSUME NEW p \in Paths PROVE Covered(offsets[p], {})'
    <3>1. PICK e \in Entry : e = offsets'[p]
      BY DEF TypeInv, TypeOK
    <3>2. e = offsets[p] \/ e = pass[a].new[p]
      BY <1>6, <3>1 DEF Record
    <3>3. CASE e = offsets[p]
      <4>1. Covered(e, {})
        BY <3>3 DEF IInv, OffsetsInv
      <4>2. Covered(e, {})'
        BY <1>2, <1>3, <4>1, CoveredStable
      <4> QED
        BY <3>1, <4>2 DEF Covered, Committed, Span, Kind
    <3>4. CASE e = pass[a].new[p]
      <4>1. PICK ids : ids = pass[a].got
        OBVIOUS
      <4>2. Covered(e, ids)
        BY <3>4, <4>1 DEF IInv, PassFor
      <4>3. Covered(e, ids)'
        BY <1>2, <1>3, <4>2, CoveredStable
      <4>4. stream' = stream
        BY <1>1 DEF logVars
      <4>5. \A i \in ids : Kind(i)' \in Marked => Committed(i)'
        BY <1>6, <4>1, <4>4, RecordCommits DEF Kind, Committed
      <4> QED
        BY <3>1, <4>3, <4>5 DEF Covered, Committed, Span, Kind
    <3> QED
      BY <3>2, <3>3, <3>4
  <2> QED
    BY <1>2, <1>4, <2>1 DEF IInv, OffsetsInv
<1> QED
  BY <1>1, <1>5, <1>6

\* A step that commits nothing, reads nothing and at most starts or drops passes.
LEMMA QuietCovered ==
  ASSUME TypeInv, TypeInv', IInv, Grows, FreshInodes', UNCHANGED dbVars,
         \A a \in Actors :
           \/ /\ pass'[a].prev = pass[a].prev
              /\ pass'[a].new = pass[a].new
              /\ pass'[a].got = pass[a].got
           \/ /\ pass'[a].prev \in {offsets, NoRows}
              /\ pass'[a].new = NoRows
  PROVE  IInv'
<1>1. recorded \subseteq recorded' /\ UNCHANGED offsets
  BY DEF dbVars
<1>2. OffsetsInv'
  BY <1>1, OffsetsStable DEF IInv
<1>3. \A a \in Actors : PassFor(a)'
  BY <1>1, PassForStable DEF IInv
<1> QED
  BY <1>2, <1>3 DEF IInv

\* What the steps that neither read nor commit do to the offsets in memory.
LEMMA ControlPass ==
  ASSUME TypeInv,
         TickLoad \/ TickStart \/ TickRelease \/ TickAbort \/ Crash
           \/ \E j \in Jobs : Submit(j) \/ JobStart(j) \/ JobFail(j),
         NEW a \in Actors
  PROVE  \/ /\ pass'[a].prev = pass[a].prev
            /\ pass'[a].new = pass[a].new
            /\ pass'[a].got = pass[a].got
         \/ /\ pass'[a].prev \in {offsets, NoRows}
            /\ pass'[a].new = NoRows
<1>1. pass \in [Actors -> PassRecord] /\ pass[a] \in PassRecord
  BY DEF TypeInv, TypeOK
<1>2. Idle.prev = NoRows /\ Idle.new = NoRows
  BY DEF Idle
<1>3. CASE TickLoad
  BY <1>1, <1>3 DEF TickLoad, Idle
<1>4. CASE TickStart \/ TickRelease \/ \E j \in Jobs : Submit(j)
  <2>1. \/ pass'[a] = pass[a]
        \/ pass'[a] = [pass[a] EXCEPT !.phase = "reading", !.todo = Listed]
        \/ pass'[a] = [pass[a] EXCEPT !.phase = "released"]
        \/ pass'[a] = [pass[a] EXCEPT !.phase = "queued"]
    BY <1>1, <1>4 DEF TickStart, TickRelease, Submit
  <2> QED
    BY <1>1, <2>1 DEF PassRecord
<1>5. CASE TickAbort \/ Crash \/ \E j \in Jobs : JobFail(j)
  BY <1>1, <1>2, <1>5 DEF TickAbort, Crash, JobFail
<1>6. CASE \E j \in Jobs : JobStart(j)
  BY <1>1, <1>6 DEF JobStart, Idle
<1> QED
  BY <1>3, <1>4, <1>5, <1>6

LEMMA ControlCovered ==
  ASSUME TypeInv, TypeInv', IInv,
         TickLoad \/ TickStart \/ TickRelease \/ TickAbort \/ Crash
           \/ \E j \in Jobs : Submit(j) \/ JobStart(j) \/ JobFail(j)
  PROVE  IInv'
<1>1. UNCHANGED <<logVars, minute, dbVars>>
  BY DEF TickLoad, TickStart, TickRelease, TickAbort, Crash, Submit, JobStart, JobFail
<1> QED
  BY <1>1, ControlPass, SameGrows, QuietCovered DEF IInv

LEMMA LogCovered ==
  ASSUME IdentityReuse = FALSE, TypeInv, TypeInv', IInv, Log
  PROVE  IInv'
<1>1. Grows
  BY LogType
<1>2. UNCHANGED <<dbVars, pass>>
  BY DEF Log, LogPause, LogStart, LogNote, LogBad, WriteLine, JvmRestart, Rotate
<1>3. FreshInodes'
  <2>1. CASE Rotate
    BY <2>1, RotateGrows DEF TypeInv, IInv
  <2>2. CASE JvmRestart
    BY <2>2 DEF JvmRestart, IInv, FreshInodes
  <2>3. ASSUME NEW kind \in Kinds, NEW gc \in Nat, WriteLine(kind, gc) PROVE FreshInodes'
    BY <2>3, WriteLineGrows DEF TypeInv, IInv
  <2>4. NewGc \in Nat /\ open \in Nat /\ {"pause", "start", "note", "bad"} \subseteq Kinds
    BY DEF NewGc, TypeInv, TypeOK, Kinds
  <2> QED
    BY <2>1, <2>2, <2>3, <2>4 DEF Log, LogPause, LogStart, LogNote, LogBad
<1> QED
  BY <1>1, <1>2, <1>3, QuietCovered

LEMMA NextCovered ==
  ASSUME IdentityReuse = FALSE, TypeInv, TypeInv', IInv, [Next]_vars
  PROVE  IInv'
<1>1. CASE Log
  BY <1>1, LogCovered
<1>2. CASE NextMinute \/ UNCHANGED vars
  <2>1. UNCHANGED <<logVars, dbVars, pass>>
    BY <1>2 DEF NextMinute, vars, logVars, dbVars
  <2> QED
    BY <2>1, SameGrows, QuietCovered DEF IInv
<1>3. CASE \E a \in Actors, p \in Paths : ReadPath(a, p)
  BY <1>3, ReadCovered
<1>4. CASE TickCommit \/ TickFail \/ \E j \in Jobs : JobCommit(j)
  BY <1>4, CommitCovered
<1>5. CASE TickLoad \/ TickStart \/ TickRelease \/ TickAbort \/ Crash
             \/ \E j \in Jobs : Submit(j) \/ JobStart(j) \/ JobFail(j)
  BY <1>5, ControlCovered
<1> QED
  BY <1>1, <1>2, <1>3, <1>4, <1>5 DEF Next, Work, Fault, TickStep, JobStep, JobRun, Actors

LEMMA InitCovered == Init => IInv
<1> SUFFICES ASSUME Init PROVE IInv
  OBVIOUS
<1>1. FreshInodes
  <2>1. DOMAIN files = {1} /\ files[1].ino = 1
    BY DEF Init
  <2> QED
    BY <2>1 DEF FreshInodes
<1>2. \A ids : Covered(NoEntry, ids)
  <2>1. Len(files) = 1 /\ DOMAIN files = {1}
    BY DEF Init
  <2> QED
    BY <2>1 DEF Covered, NoEntry
<1>3. \A p \in Paths : NoRows[p] = NoEntry
  BY DEF NoRows
<1>4. OffsetsInv
  BY <1>2, <1>3 DEF Init, OffsetsInv
<1>5. ASSUME NEW a \in Actors PROVE PassFor(a)
  <2>1. pass[a].prev = NoRows /\ pass[a].new = NoRows
    BY DEF Init, Idle
  <2> QED
    BY <1>2, <1>3, <2>1 DEF PassFor
<1> QED
  BY <1>1, <1>4, <1>5 DEF IInv

\* A line behind an offset that the next pass would resume from is committed.
LEMMA CoveredIsRecorded ==
  ASSUME TypeInv, IInv, NEW f \in Live, NEW i \in Acknowledged(f), Kind(i) \in Marked
  PROVE  \E m \in Minutes : <<i, m>> \in recorded
<1>1. f \in 1 .. Len(files) /\ f \in DOMAIN files /\ files[f] \in File
  <2>1. files \in Seq(File) /\ f \in 0 .. Len(files) /\ f # 0
    BY DEF Live, Listed, TypeInv, TypeOK
  <2> QED
    BY <2>1
<1>2. files[f].ino = f /\ files[f].first \in Nat
  BY <1>1 DEF IInv, FreshInodes, File
<1>3. PICK c \in Candidates(offsets, f, files[f].size) : i \in Span(f, 0, c)
  BY <1>2 DEF Acknowledged
<1>4. CASE c = 0
  BY <1>2, <1>3, <1>4 DEF Span
<1>5. CASE \E q \in Paths : offsets[q].ino = f /\ offsets[q].offset = c
  BY <1>1, <1>3, <1>5 DEF IInv, OffsetsInv, Covered, Committed
<1> QED
  BY <1>3, <1>4, <1>5 DEF Candidates

\* Where every log has an inode number of its own, no pause is silently lost:
\* whatever ticks, jobs, rotations, failures and crashes do, a pause behind an
\* offset stored in collector_state was summarised by a committed metric row
\* (AcknowledgedIsRecorded, for any number of paths, jobs, files and lines).
THEOREM NoSilentLoss ==
  ASSUME IdentityReuse = FALSE
  PROVE  Spec => []AcknowledgedIsRecorded
<1>1. Init => TypeInv /\ IInv
  BY InitCovered, InitTypeInv
<1>2. TypeInv /\ IInv /\ [Next]_vars => (TypeInv /\ IInv)'
  BY NextType, NextCovered
<1>3. TypeInv /\ IInv => AcknowledgedIsRecorded
  BY CoveredIsRecorded DEF AcknowledgedIsRecorded, Pauses, Marked
<1> QED
  BY <1>1, <1>2, <1>3, PTL DEF Spec

-----------------------------------------------------------------------------
(* Pauses and their ends. *)

\* A pause has one end, no other pause starts before it, and the one in progress
\* is the last to start and has none yet.
StreamInv ==
  /\ \A i \in 1 .. Len(stream) : stream[i].gc <= i /\ (Kind(i) = "start" => stream[i].gc = i)
  /\ \A i, j \in 1 .. Len(stream) :
       Kind(i) = "start" /\ Kind(j) \in Marked /\ stream[j].gc = i =>
         /\ i < j
         /\ \A k \in 1 .. Len(stream) : i < k /\ k < j => Kind(k) # "start"
         /\ \A k \in 1 .. Len(stream) : Kind(k) \in Marked /\ stream[k].gc = i => k = j
  /\ open # 0 =>
       /\ open \in 1 .. Len(stream) /\ Kind(open) = "start"
       /\ \A k \in 1 .. Len(stream) : Kind(k) = "start" => k <= open
       /\ \A k \in 1 .. Len(stream) : Kind(k) \in Marked => stream[k].gc # open

\* Every pause that starts before an offset ends before it.
Ended(e) ==
  \A f \in DOMAIN files : e.ino = f =>
    \A i \in Span(f, 0, e.offset) : Kind(i) = "start" =>
      \E j \in Span(f, 0, e.offset) : Kind(j) \in Marked /\ stream[j].gc = i

EndedInv ==
  /\ \A p \in Paths : Ended(offsets[p])
  /\ \A a \in Actors : \A p \in Paths : Ended(pass[a].prev[p]) /\ Ended(pass[a].new[p])

\* One line more: what the others say stays, and how the new one is numbered.
LEMMA Written ==
  ASSUME TypeInv, NEW kind \in Kinds, NEW gc \in Nat, WriteLine(kind, gc)
  PROVE  /\ Len(stream) \in Nat /\ Len(stream') = Len(stream) + 1
         /\ \A i \in 1 .. Len(stream) : stream'[i] = stream[i]
         /\ stream'[Len(stream) + 1].kind = kind /\ stream'[Len(stream) + 1].gc = gc
         /\ \A i \in 1 .. Len(stream) : stream[i].gc \in Nat
<1>1. stream \in Seq(Line) /\ [kind |-> kind, gc |-> gc, at |-> minute] \in Line
  BY DEF TypeInv, TypeOK, Line
<1>2. \A i \in 1 .. Len(stream) : stream[i] \in Line
  BY <1>1
<1>3. \A i \in 1 .. Len(stream) : stream[i].gc \in Nat
  BY <1>2 DEF Line
<1> QED
  BY <1>1, <1>3 DEF WriteLine

LEMMA StreamStep ==
  ASSUME TypeInv, StreamInv, Log
  PROVE  StreamInv'
<1> DEFINE n == Len(stream)
<1>0. open \in Nat /\ n \in Nat /\ NewGc = n + 1
  BY DEF TypeInv, TypeOK, NewGc
<1>1. CASE LogStart
  <2>1. /\ n \in Nat /\ Len(stream') = n + 1 /\ \A i \in 1 .. n : stream'[i] = stream[i]
        /\ stream'[n + 1].kind = "start" /\ stream'[n + 1].gc = n + 1
        /\ \A i \in 1 .. n : stream[i].gc \in Nat
    BY <1>0, <1>1, Written DEF LogStart, Kinds
  <2>2. open = 0 /\ open' = n + 1
    BY <1>0, <1>1 DEF LogStart
  <2> HIDE DEF n
  <2>3. \A i \in 1 .. Len(stream') : stream'[i].gc <= i /\ (stream'[i].kind = "start" => stream'[i].gc = i)
    BY <2>1 DEF StreamInv, Kind, n
  <2>4. ASSUME NEW i \in 1 .. n + 1, NEW j \in 1 .. n + 1, stream'[i].kind = "start",
               stream'[j].kind \in Marked, stream'[j].gc = i
        PROVE  /\ i \in 1 .. n /\ j \in 1 .. n
               /\ i < j
               /\ \A k \in 1 .. n : i < k /\ k < j => stream[k].kind # "start"
               /\ \A k \in 1 .. n : stream[k].kind \in Marked /\ stream[k].gc = i => k = j
    <3>1. j \in 1 .. n
      BY <2>1, <2>4 DEF Marked
    <3>2. stream[j].gc <= j
      BY <3>1 DEF StreamInv, n
    <3>3. i \in 1 .. n
      BY <2>1, <2>4, <3>1, <3>2
    <3> QED
      BY <2>1, <2>4, <3>1, <3>3 DEF StreamInv, Kind, n
  <2> QED
    BY <2>1, <2>2, <2>3, <2>4 DEF StreamInv, Kind, Marked
<1>2. ASSUME NEW kind \in {"pause", "bad"}, WriteLine(kind, IF open = 0 THEN NewGc ELSE open), open' = 0
      PROVE  StreamInv'
  <2> DEFINE gc == IF open = 0 THEN NewGc ELSE open
  <2>1. /\ Len(stream') = n + 1 /\ \A i \in 1 .. n : stream'[i] = stream[i]
        /\ stream'[n + 1].kind = kind /\ stream'[n + 1].gc = gc
        /\ \A i \in 1 .. n : stream[i].gc \in Nat
    <3>1. gc \in Nat /\ kind \in Kinds
      BY <1>0, <1>2 DEF Kinds
    <3> QED
      BY <1>2, <3>1, Written
  <2>2. /\ gc <= n + 1 /\ (gc = n + 1 \/ gc = open)
        /\ open # 0 => open \in 1 .. n
    BY <1>0 DEF StreamInv
  <2> HIDE DEF n, gc
  <2>3. \A i \in 1 .. Len(stream') : stream'[i].gc <= i /\ (stream'[i].kind = "start" => stream'[i].gc = i)
    BY <1>0, <1>2, <2>1, <2>2 DEF StreamInv, Kind, n
  <2>4. ASSUME NEW i \in 1 .. n + 1, NEW j \in 1 .. n + 1, stream'[i].kind = "start",
               stream'[j].kind \in Marked, stream'[j].gc = i
        PROVE  /\ i < j
               /\ \A k \in 1 .. n + 1 : i < k /\ k < j => stream'[k].kind # "start"
               /\ \A k \in 1 .. n + 1 : stream'[k].kind \in Marked /\ stream'[k].gc = i => k = j
    <3>1. i \in 1 .. n /\ stream[i].kind = "start"
      BY <1>0, <1>2, <2>1, <2>4
    <3>2. CASE j = n + 1
      <4>1. i = open /\ open # 0
        BY <1>0, <2>1, <2>2, <2>4, <3>1, <3>2 DEF gc
      <4>2. /\ \A k \in 1 .. n : stream[k].kind = "start" => k <= open
            /\ \A k \in 1 .. n : stream[k].kind \in Marked => stream[k].gc # open
        BY <4>1 DEF StreamInv, Kind, n
      <4>3. \A k \in 1 .. n + 1 : i < k /\ k < j => stream'[k].kind # "start"
        BY <1>0, <2>1, <3>1, <3>2, <4>1, <4>2
      <4>4. \A k \in 1 .. n + 1 : stream'[k].kind \in Marked /\ stream'[k].gc = i => k = j
        BY <1>0, <2>1, <3>2, <4>1, <4>2
      <4> QED
        BY <1>0, <3>1, <3>2, <4>3, <4>4
    <3>3. CASE j # n + 1
      <4>1. j \in 1 .. n /\ stream[j].kind \in Marked /\ stream[j].gc = i
        BY <1>0, <2>1, <2>4, <3>3
      <4>2. /\ i < j
            /\ \A k \in 1 .. n : i < k /\ k < j => stream[k].kind # "start"
            /\ \A k \in 1 .. n : stream[k].kind \in Marked /\ stream[k].gc = i => k = j
        BY <3>1, <4>1 DEF StreamInv, Kind, n
      <4>3. stream'[n + 1].gc # i
        <5>1. CASE open = i
          BY <1>0, <3>1, <4>1, <5>1 DEF StreamInv, Kind, n
        <5>2. CASE open # i
          BY <1>0, <2>1, <2>2, <3>1, <5>2
        <5> QED
          BY <5>1, <5>2
      <4> QED
        BY <1>0, <2>1, <3>1, <4>1, <4>2, <4>3
    <3> QED
      BY <3>2, <3>3
  <2> QED
    BY <1>2, <2>1, <2>3, <2>4 DEF StreamInv, Kind
<1>3. CASE LogNote
  <2>1. /\ Len(stream') = n + 1 /\ \A i \in 1 .. n : stream'[i] = stream[i]
        /\ stream'[n + 1].kind = "note" /\ stream'[n + 1].gc = n + 1 /\ open' = open
        /\ \A i \in 1 .. n : stream[i].gc \in Nat
    BY <1>0, <1>3, Written DEF LogNote, Kinds
  <2> HIDE DEF n
  <2>2. \A i \in 1 .. Len(stream') : stream'[i].gc <= i /\ (stream'[i].kind = "start" => stream'[i].gc = i)
    BY <1>0, <2>1 DEF StreamInv, Kind, n
  <2>3. \A i \in 1 .. n + 1 : stream'[i].kind = "start" \/ stream'[i].kind \in Marked => i \in 1 .. n
    BY <1>0, <2>1 DEF Marked
  <2>4. ASSUME NEW i \in 1 .. n + 1, NEW j \in 1 .. n + 1, stream'[i].kind = "start",
               stream'[j].kind \in Marked, stream'[j].gc = i
        PROVE  /\ i < j
               /\ \A k \in 1 .. n + 1 : i < k /\ k < j => stream'[k].kind # "start"
               /\ \A k \in 1 .. n + 1 : stream'[k].kind \in Marked /\ stream'[k].gc = i => k = j
    <3>1. /\ i \in 1 .. n /\ stream[i].kind = "start"
          /\ j \in 1 .. n /\ stream[j].kind \in Marked /\ stream[j].gc = i
      BY <2>1, <2>3, <2>4
    <3>2. /\ i < j
          /\ \A k \in 1 .. n : i < k /\ k < j => stream[k].kind # "start"
          /\ \A k \in 1 .. n : stream[k].kind \in Marked /\ stream[k].gc = i => k = j
      BY <3>1 DEF StreamInv, Kind, n
    <3> QED
      BY <2>1, <2>3, <3>2
  <2>5. open # 0 =>
       /\ open \in 1 .. n /\ stream[open].kind = "start"
       /\ \A k \in 1 .. n : stream[k].kind = "start" => k <= open
       /\ \A k \in 1 .. n : stream[k].kind \in Marked => stream[k].gc # open
    BY DEF StreamInv, Kind, n
  <2> QED
    BY <1>0, <2>1, <2>2, <2>3, <2>4, <2>5 DEF StreamInv, Kind
<1>4. CASE JvmRestart \/ Rotate
  <2>1. stream' = stream /\ (open' = open \/ open' = 0)
    BY <1>4 DEF JvmRestart, Rotate
  <2> QED
    BY <2>1 DEF StreamInv, Kind
<1> QED
  BY <1>1, <1>2, <1>3, <1>4 DEF Log, LogPause, LogBad

-----------------------------------------------------------------------------
(* No pause is split *)

LEMMA EndedStable ==
  ASSUME TypeInv, TypeInv', Grows, NEW e \in Entry, NEW ids, Covered(e, ids), Ended(e)
  PROVE  Ended(e)'
<1>1. /\ DOMAIN files = 1 .. Len(files) /\ DOMAIN files' = 1 .. Len(files')
      /\ Len(files) \in Nat /\ Len(files') \in Nat /\ Len(files) <= Len(files')
      /\ Len(stream) \in Nat
  BY DEF TypeInv, TypeOK, Grows
<1>2. e.ino \in 1 .. Len(files) \/ e.ino = 0
  BY <1>1 DEF Covered
<1>3. CASE e.ino = 0
  BY <1>1, <1>3 DEF Ended
<1>4. ASSUME e.ino \in 1 .. Len(files)
      PROVE  Ended(e)'
  <2> DEFINE f == e.ino
  <2>1. files[f] \in File /\ files'[f].first = files[f].first
    BY <1>1, <1>4 DEF Grows, TypeInv, TypeOK
  <2>2. files[f].first \in Nat /\ files[f].size \in Nat /\ e.offset \in Nat
    BY <2>1 DEF File, Entry
  <2>3. e.offset <= files[f].size /\ files[f].first + files[f].size <= Len(stream)
    BY <1>1, <1>4 DEF Covered, TypeInv, FilesInv
  <2>4. Span(f, 0, e.offset)' = Span(f, 0, e.offset)
    BY <2>1 DEF Span
  <2>5. Span(f, 0, e.offset) \subseteq 1 .. Len(stream)
    BY <1>1, <1>4, <2>2, <2>3, SpanType
  <2>6. \A i \in Span(f, 0, e.offset) : stream'[i] = stream[i]
    BY <2>5 DEF Grows
  <2>7. ASSUME NEW i \in Span(f, 0, e.offset), stream'[i].kind = "start"
        PROVE  \E j \in Span(f, 0, e.offset) : stream'[j].kind \in Marked /\ stream'[j].gc = i
    <3>1. stream[i].kind = "start"
      BY <2>6, <2>7
    <3>2. \E j \in Span(f, 0, e.offset) : stream[j].kind \in Marked /\ stream[j].gc = i
      BY <1>1, <1>4, <3>1 DEF Ended, Kind
    <3> QED
      BY <2>6, <3>2
  <2> QED
    BY <1>1, <1>4, <2>4, <2>7 DEF Ended, Kind
<1> QED
  BY <1>2, <1>3, <1>4

\* The offsets there are: none, a stored one, or one a pass has in memory.
Held(e) ==
  \/ e = NoEntry
  \/ \E p \in Paths : e = offsets[p]
  \/ \E a \in Actors, p \in Paths : e = pass[a].prev[p] \/ e = pass[a].new[p]

\* An offset that a step keeps, hands on or forgets stays at the end of a pause.
LEMMA EndedKept ==
  ASSUME TypeInv, TypeInv', IInv, EndedInv, Grows, NEW e \in Entry, Held(e)
  PROVE  Ended(e)'
<1> USE DEF Held
<1>1. CASE e = NoEntry
  <2>1. \A f \in DOMAIN files' : f # 0
    BY DEF TypeInv, TypeOK
  <2> QED
    BY <1>1, <2>1 DEF Ended, NoEntry
<1>2. CASE \E p \in Paths : e = offsets[p]
  BY <1>2, EndedStable DEF EndedInv, IInv, OffsetsInv
<1>3. ASSUME NEW a \in Actors, NEW p \in Paths, e = pass[a].prev[p] \/ e = pass[a].new[p]
      PROVE  Ended(e)'
  <2>1. PICK ids : Covered(e, ids)
    BY <1>3 DEF IInv, PassFor
  <2>2. Ended(e)
    BY <1>3 DEF EndedInv
  <2> QED
    BY <2>1, <2>2, EndedStable
<1> QED
  BY <1>1, <1>2, <1>3

\* complete_prefix ends behind the end of every pause it lets through.
LEMMA PrefixEnded ==
  ASSUME TypeInv, StreamInv, NEW f \in DOMAIN files, files[f].ino = f,
         NEW start \in Nat, NEW keep \in start .. files[f].size,
         IsCompletePrefix(keep, f, start, files[f].size),
         NEW i \in Span(f, start, keep), Kind(i) = "start"
  PROVE  \E j \in Span(f, 0, keep) : Kind(j) \in Marked /\ stream[j].gc = i
<1> DEFINE b == files[f].first
           size == files[f].size
           l == i - b
<1>1. b \in Nat /\ size \in Nat /\ Len(stream) \in Nat /\ b + size <= Len(stream)
  <2>1. files[f] \in File /\ Len(stream) \in Nat
    BY DEF TypeInv, TypeOK
  <2> QED
    BY <2>1 DEF File, TypeInv, FilesInv
<1>2. /\ keep \in Nat /\ start <= keep /\ keep <= size
      /\ l \in start + 1 .. keep /\ i = b + l /\ l \in Nat /\ i \in 1 .. Len(stream)
  BY <1>1 DEF Span
<1>3. stream[i].gc = i
  BY <1>2 DEF StreamInv
<1>4. l \notin Unfinished(f, start, size)
  BY <1>2 DEF IsCompletePrefix
<1> HIDE DEF l
<1>5. PICK k \in l + 1 .. size : stream[b + k].gc = i /\ stream[b + k].kind \in Marked
  <2>1. l \in start + 1 .. size
    BY <1>1, <1>2
  <2>2. stream[b + l].kind = "start"
    BY <1>2 DEF Kind
  <2> QED
    BY <1>2, <1>3, <1>4, <2>1, <2>2 DEF Unfinished, Marked
<1>6. CASE k <= keep
  <2>1. b + k \in Span(f, 0, keep)
    BY <1>1, <1>2, <1>6 DEF Span
  <2> QED
    BY <1>5, <2>1 DEF Kind
<1>7. CASE k > keep
  <2>1. keep + 1 \in Unfinished(f, start, size)
    BY <1>1, <1>2, <1>7 DEF IsCompletePrefix
  <2>2. stream[b + (keep + 1)].kind = "start"
    BY <2>1 DEF Unfinished
  <2>3. /\ b + (keep + 1) \in 1 .. Len(stream) /\ b + k \in 1 .. Len(stream)
        /\ i < b + (keep + 1)
    BY <1>1, <1>2, <1>7
  <2>4. keep + 1 # k
    BY <1>5, <2>2 DEF Marked
  <2>5. b + (keep + 1) < b + k
    BY <1>1, <1>2, <1>7, <2>4
  <2>6. \A n \in 1 .. Len(stream) : i < n /\ n < b + k => Kind(n) # "start"
    BY <1>2, <1>5, <2>3 DEF StreamInv, Kind
  <2> QED
    BY <2>2, <2>3, <2>5, <2>6 DEF Kind
<1> QED
  BY <1>1, <1>2, <1>6, <1>7

\* What a read changes in memory, field by field.
LEMMA ReadShape ==
  ASSUME TypeInv, NEW a \in Actors, NEW p \in Paths, ReadPath(a, p)
  PROVE  LET ino == files[dir[p]].ino
             size == files[dir[p]].size
         IN
         /\ \A b \in Actors : b # a => pass'[b] = pass[b]
         /\ pass'[a].phase = pass[a].phase /\ pass'[a].ts = pass[a].ts
         /\ pass'[a].incremental = pass[a].incremental /\ pass'[a].prev = pass[a].prev
         /\ pass'[a].todo = pass[a].todo \ {p}
         /\ \/ /\ ino \in pass[a].seen
               /\ pass'[a].seen = pass[a].seen /\ pass'[a].got = pass[a].got
               /\ pass'[a].new = pass[a].new
            \/ /\ ino \notin pass[a].seen
               /\ \E start \in 0 .. size : \E keep \in start .. size :
                    /\ IsResumePoint(start, pass[a].prev, ino, size)
                    /\ IsCompletePrefix(keep, dir[p], start, size)
                    /\ pass'[a].seen = pass[a].seen \cup {ino}
                    /\ pass'[a].got = pass[a].got \cup Span(dir[p], start, keep)
                    /\ pass'[a].new = [pass[a].new EXCEPT ![p] = [ino |-> ino, offset |-> keep]]
<1> DEFINE ino == files[dir[p]].ino
           size == files[dir[p]].size
<1>1. pass \in [Actors -> PassRecord] /\ pass[a] \in PassRecord
  BY DEF TypeInv, TypeOK
<1>2. CASE /\ ino \in pass[a].seen
           /\ pass' = [pass EXCEPT ![a].todo = @ \ {p}]
  BY <1>1, <1>2 DEF PassRecord
<1>3. ASSUME NEW start \in 0 .. size, NEW keep \in start .. size,
             ino \notin pass[a].seen,
             IsResumePoint(start, pass[a].prev, ino, size),
             IsCompletePrefix(keep, dir[p], start, size),
             pass' = [pass EXCEPT
                     ![a].todo = @ \ {p},
                     ![a].seen = @ \cup {ino},
                     ![a].got = @ \cup Span(dir[p], start, keep),
                     ![a].new[p] = [ino |-> ino, offset |-> keep]]
      PROVE  /\ \A b \in Actors : b # a => pass'[b] = pass[b]
             /\ pass'[a].phase = pass[a].phase /\ pass'[a].ts = pass[a].ts
             /\ pass'[a].incremental = pass[a].incremental /\ pass'[a].prev = pass[a].prev
             /\ pass'[a].todo = pass[a].todo \ {p}
             /\ pass'[a].seen = pass[a].seen \cup {ino}
             /\ pass'[a].got = pass[a].got \cup Span(dir[p], start, keep)
             /\ pass'[a].new = [pass[a].new EXCEPT ![p] = [ino |-> ino, offset |-> keep]]
  <2> HIDE DEF ino, size
  <2> QED
    BY <1>1, <1>3 DEF PassRecord
<1> QED
  BY <1>2, <1>3 DEF ReadPath

LEMMA ReadEnded ==
  ASSUME TypeInv, TypeInv', IInv, StreamInv, EndedInv, NEW a \in Actors, NEW p \in Paths, ReadPath(a, p)
  PROVE  EndedInv'
<1>1. UNCHANGED <<logVars, dbVars>> /\ Grows
  BY SameGrows DEF ReadPath
<1>2. /\ pass \in [Actors -> PassRecord] /\ pass[a] \in PassRecord
      /\ \A b \in Actors, q \in Paths :
           pass[b].prev[q] \in Entry /\ pass[b].new[q] \in Entry /\ offsets[q] \in Entry
  BY DEF TypeInv, TypeOK, PassRecord
<1>3. \A e \in Entry : Ended(e)' <=> Ended(e)
  BY <1>1 DEF Ended, Span, Kind, logVars
<1>4. \A q \in Paths : Ended(offsets[q])'
  BY <1>1, <1>2, <1>3 DEF EndedInv, dbVars, Ended, Span, Kind
<1> DEFINE f == dir[p]
<1>5. f \in DOMAIN files /\ files[f] \in File /\ files[f].ino = f /\ files[f].size \in Nat
  <2>1. files \in Seq(File) /\ f \in 0 .. Len(files)
    BY DEF TypeInv, TypeOK
  <2>2. f # 0
    BY DEF ReadPath
  <2>3. f \in DOMAIN files /\ files[f] \in File
    BY <2>1, <2>2
  <2> QED
    BY <2>3 DEF IInv, FreshInodes, File
<1>6. ASSUME NEW start \in 0 .. files[f].size, NEW keep \in start .. files[f].size,
             IsResumePoint(start, pass[a].prev, files[f].ino, files[f].size),
             IsCompletePrefix(keep, f, start, files[f].size)
      PROVE  Ended([ino |-> f, offset |-> keep])
  <2>1. start \in Nat /\ keep \in Nat /\ start <= keep /\ files[f].first \in Nat
    BY <1>5 DEF File
  <2>2. ASSUME NEW i \in Span(f, 0, keep), Kind(i) = "start"
        PROVE  \E j \in Span(f, 0, keep) : Kind(j) \in Marked /\ stream[j].gc = i
    <3>1. CASE i \in Span(f, start, keep)
      BY <1>5, <1>6, <2>1, <2>2, <3>1, PrefixEnded
    <3>2. CASE i \notin Span(f, start, keep)
      <4>1. i \in Span(f, 0, start) /\ Span(f, 0, start) \subseteq Span(f, 0, keep) /\ start # 0
        BY <2>1, <3>2 DEF Span
      <4>2. PICK q \in Paths : pass[a].prev[q].ino = f /\ pass[a].prev[q].offset = start
        BY <1>5, <1>6, <4>1 DEF IsResumePoint, Candidates
      <4>3. Ended(pass[a].prev[q])
        BY DEF EndedInv
      <4>4. \E j \in Span(f, 0, start) : Kind(j) \in Marked /\ stream[j].gc = i
        BY <1>5, <2>2, <4>1, <4>2, <4>3 DEF Ended
      <4> QED
        BY <4>1, <4>4
    <3> QED
      BY <3>1, <3>2
  <2> QED
    BY <1>5, <2>2 DEF Ended
<1>7. ASSUME NEW b \in Actors, NEW q \in Paths
      PROVE  /\ pass'[b].prev[q] = pass[b].prev[q]
             /\ \/ pass'[b].new[q] = pass[b].new[q]
                \/ \E start \in 0 .. files[f].size : \E keep \in start .. files[f].size :
                     /\ IsResumePoint(start, pass[a].prev, files[f].ino, files[f].size)
                     /\ IsCompletePrefix(keep, f, start, files[f].size)
                     /\ pass'[b].new[q] = [ino |-> f, offset |-> keep]
  <2>1. CASE b # a
    BY <2>1, ReadShape
  <2>2. CASE b = a
    <3>1. pass[a].new \in [Paths -> Entry]
      BY <1>2 DEF PassRecord
    <3>2. \/ pass'[a].new = pass[a].new
          \/ \E start \in 0 .. files[f].size : \E keep \in start .. files[f].size :
               /\ IsResumePoint(start, pass[a].prev, files[f].ino, files[f].size)
               /\ IsCompletePrefix(keep, f, start, files[f].size)
               /\ pass'[a].new = [pass[a].new EXCEPT ![p] = [ino |-> files[f].ino, offset |-> keep]]
      BY ReadShape
    <3>3. pass'[a].prev = pass[a].prev
      BY ReadShape
    <3> HIDE DEF f
    <3>4. CASE pass'[a].new = pass[a].new
      BY <2>2, <3>3, <3>4
    <3>5. ASSUME NEW start \in 0 .. files[f].size, NEW keep \in start .. files[f].size,
                 IsResumePoint(start, pass[a].prev, files[f].ino, files[f].size),
                 IsCompletePrefix(keep, f, start, files[f].size),
                 pass'[a].new = [pass[a].new EXCEPT ![p] = [ino |-> files[f].ino, offset |-> keep]]
          PROVE  \/ pass'[b].new[q] = pass[b].new[q]
                 \/ pass'[b].new[q] = [ino |-> f, offset |-> keep]
      BY <1>5, <2>2, <3>1, <3>5
    <3> QED
      BY <2>2, <3>2, <3>3, <3>4, <3>5
  <2> QED
    BY <2>1, <2>2
<1>8. ASSUME NEW b \in Actors, NEW q \in Paths
      PROVE  Ended(pass[b].prev[q])' /\ Ended(pass[b].new[q])'
  <2>1. pass'[b].prev[q] \in Entry /\ pass'[b].new[q] \in Entry
    BY DEF TypeInv, TypeOK, PassRecord
  <2>2. Ended(pass'[b].prev[q]) /\ Ended(pass'[b].new[q])
    BY <1>6, <1>7 DEF EndedInv
  <2>3. PICK e1 \in Entry, e2 \in Entry : e1 = pass'[b].prev[q] /\ e2 = pass'[b].new[q]
    BY <2>1
  <2>4. Ended(e1)' /\ Ended(e2)'
    BY <1>3, <2>2, <2>3
  <2> QED
    BY <2>3, <2>4 DEF Ended, Span, Kind
<1> QED
  BY <1>4, <1>8 DEF EndedInv

\* A step that makes no offset of its own.
LEMMA HeldEnded ==
  ASSUME TypeInv, TypeInv', IInv, EndedInv, Grows,
         \A p \in Paths : Held(offsets'[p]),
         \A a \in Actors, p \in Paths : Held(pass'[a].prev[p]) /\ Held(pass'[a].new[p])
  PROVE  EndedInv'
<1>1. ASSUME NEW p \in Paths PROVE Ended(offsets[p])'
  <2>1. PICK e \in Entry : e = offsets'[p]
    BY DEF TypeInv, TypeOK
  <2>2. Ended(e)'
    BY <2>1, EndedKept
  <2> QED
    BY <2>1, <2>2 DEF Ended, Span, Kind
<1>2. ASSUME NEW a \in Actors, NEW p \in Paths
      PROVE  Ended(pass[a].prev[p])' /\ Ended(pass[a].new[p])'
  <2>1. PICK e1 \in Entry, e2 \in Entry : e1 = pass'[a].prev[p] /\ e2 = pass'[a].new[p]
    BY DEF TypeInv, TypeOK, PassRecord
  <2>2. Ended(e1)' /\ Ended(e2)'
    BY <2>1, EndedKept
  <2> QED
    BY <2>1, <2>2 DEF Ended, Span, Kind
<1> QED
  BY <1>1, <1>2 DEF EndedInv

LEMMA NextEnded ==
  ASSUME TypeInv, TypeInv', IInv, StreamInv, EndedInv, [Next]_vars
  PROVE  StreamInv' /\ EndedInv'
<1>1. ASSUME UNCHANGED logVars PROVE StreamInv' /\ Grows
  BY <1>1, SameGrows DEF StreamInv, Kind, logVars
<1>2. \A p \in Paths : NoRows[p] = NoEntry
  BY DEF NoRows
<1>3. CASE Log
  <2>1. UNCHANGED <<dbVars, pass>>
    BY <1>3 DEF Log, LogPause, LogStart, LogNote, LogBad, WriteLine, JvmRestart, Rotate
  <2>2. /\ \A p \in Paths : Held(offsets'[p])
        /\ \A a \in Actors, p \in Paths : Held(pass'[a].prev[p]) /\ Held(pass'[a].new[p])
    BY <2>1 DEF Held, dbVars
  <2> QED
    BY <1>3, <2>2, LogType, StreamStep, HeldEnded
<1>4. CASE NextMinute \/ UNCHANGED vars
  <2>1. UNCHANGED <<logVars, dbVars, pass>>
    BY <1>4 DEF NextMinute, vars, logVars, dbVars
  <2>2. /\ \A p \in Paths : Held(offsets'[p])
        /\ \A a \in Actors, p \in Paths : Held(pass'[a].prev[p]) /\ Held(pass'[a].new[p])
    BY <2>1 DEF Held, dbVars
  <2> QED
    BY <1>1, <2>1, <2>2, HeldEnded
<1>5. CASE \E a \in Actors, p \in Paths : ReadPath(a, p)
  <2>1. UNCHANGED logVars
    BY <1>5 DEF ReadPath
  <2> QED
    BY <1>1, <1>5, <2>1, ReadEnded
<1>6. CASE TickCommit \/ TickFail \/ \E j \in Jobs : JobCommit(j)
  <2>1. PICK a \in Actors :
          /\ Record(a) \/ RecordNothing(a)
          /\ pass' = [pass EXCEPT ![a] = Idle]
          /\ UNCHANGED logVars
    BY <1>6 DEF TickCommit, TickFail, JobCommit, Actors
  <2>2. ASSUME NEW p \in Paths PROVE Held(offsets'[p])
    <3>1. offsets'[p] = offsets[p] \/ offsets'[p] = pass[a].new[p]
      BY <2>1 DEF Record, RecordNothing
    <3> QED
      BY <3>1 DEF Held
  <2>3. ASSUME NEW b \in Actors, NEW p \in Paths
        PROVE  Held(pass'[b].prev[p]) /\ Held(pass'[b].new[p])
    <3>1. pass'[b] = pass[b] \/ pass'[b] = Idle
      BY <2>1 DEF TypeInv, TypeOK
    <3>2. Idle.prev[p] = NoEntry /\ Idle.new[p] = NoEntry
      BY <1>2 DEF Idle
    <3> QED
      BY <3>1, <3>2 DEF Held
  <2> QED
    BY <1>1, <2>1, <2>2, <2>3, HeldEnded
<1>7. CASE TickLoad \/ TickStart \/ TickRelease \/ TickAbort \/ Crash
             \/ \E j \in Jobs : Submit(j) \/ JobStart(j) \/ JobFail(j)
  <2>1. UNCHANGED <<logVars, dbVars>>
    BY <1>7 DEF TickLoad, TickStart, TickRelease, TickAbort, Crash, Submit, JobStart, JobFail
  <2>2. ASSUME NEW a \in Actors, NEW p \in Paths
        PROVE  Held(pass'[a].prev[p]) /\ Held(pass'[a].new[p])
    <3>1. pass'[a].prev \in {pass[a].prev, offsets, NoRows} /\ pass'[a].new \in {pass[a].new, NoRows}
      BY <1>7, ControlPass
    <3> QED
      BY <1>2, <3>1 DEF Held
  <2>3. \A p \in Paths : Held(offsets'[p])
    BY <2>1 DEF Held, dbVars
  <2> QED
    BY <1>1, <2>1, <2>2, <2>3, HeldEnded
<1> QED
  BY <1>3, <1>4, <1>5, <1>6, <1>7 DEF Next, Work, Fault, TickStep, JobStep, JobRun, Actors

LEMMA InitEnded == Init => StreamInv /\ EndedInv
<1> SUFFICES ASSUME Init PROVE StreamInv /\ EndedInv
  OBVIOUS
<1>1. stream = <<>> /\ open = 0
  BY DEF Init
<1>2. Ended(NoEntry)
  <2>1. DOMAIN files = {1}
    BY DEF Init
  <2> QED
    BY <2>1 DEF Ended, NoEntry
<1>3. ASSUME NEW p \in Paths
      PROVE  offsets[p] = NoEntry /\ \A a \in Actors : pass[a].prev[p] = NoEntry /\ pass[a].new[p] = NoEntry
  BY DEF Init, Idle, NoRows
<1> QED
  BY <1>1, <1>2, <1>3 DEF StreamInv, EndedInv

\* Where every log has an inode number of its own, complete_prefix never lets a
\* stored offset fall inside a pause: the line that ends a pause whose start the
\* next pass will skip is skipped too, whatever is written, rotated, retried or
\* lost in between (NoSplitPause, for all constants).
THEOREM PausesStayWhole ==
  ASSUME IdentityReuse = FALSE
  PROVE  Spec => []NoSplitPause
<1> DEFINE Inv == TypeInv /\ IInv /\ StreamInv /\ EndedInv
<1>1. Init => Inv
  BY InitTypeInv, InitCovered, InitEnded
<1>2. Inv /\ [Next]_vars => Inv'
  <2> SUFFICES ASSUME Inv, [Next]_vars PROVE Inv'
    OBVIOUS
  <2>1. TypeInv'
    BY NextType
  <2> QED
    BY <2>1, NextCovered, NextEnded
<1>3. Inv => NoSplitPause
  <2> SUFFICES ASSUME Inv, NEW f \in Live, NEW i \in Acknowledged(f), NEW j \in Span(f, 0, files[f].size),
                      Kind(i) = "start", Kind(j) \in Marked, stream[i].gc = stream[j].gc
               PROVE  j \in Acknowledged(f)
    BY DEF NoSplitPause, Marked
  <2>1. f \in 1 .. Len(files) /\ f \in DOMAIN files /\ files[f] \in File
    <3>1. files \in Seq(File) /\ f \in 0 .. Len(files) /\ f # 0
      BY DEF Live, Listed, TypeInv, TypeOK
    <3> QED
      BY <3>1
  <2>2. files[f].ino = f /\ files[f].first \in Nat /\ files[f].size \in Nat
    BY <2>1 DEF IInv, FreshInodes, File
  <2>3. PICK c \in Candidates(offsets, f, files[f].size) : i \in Span(f, 0, c)
    BY <2>2 DEF Acknowledged
  <2>4. c # 0
    BY <2>2, <2>3 DEF Span
  <2>5. PICK q \in Paths : offsets[q].ino = f /\ offsets[q].offset = c /\ c <= files[f].size
    BY <2>3, <2>4 DEF Candidates
  <2>6. PICK k \in Span(f, 0, c) : Kind(k) \in Marked /\ stream[k].gc = i
    BY <2>1, <2>3, <2>5 DEF EndedInv, Ended
  <2>7. c \in Nat
    BY <2>5 DEF TypeInv, TypeOK, Entry
  <2>8. Span(f, 0, c) \subseteq 1 .. Len(stream) /\ Span(f, 0, files[f].size) \subseteq 1 .. Len(stream)
    BY <2>1, <2>2, <2>5, <2>7, SpanType
  <2>9. j = k
    <3>1. i \in 1 .. Len(stream) /\ j \in 1 .. Len(stream) /\ k \in 1 .. Len(stream)
      BY <2>3, <2>8
    <3>2. stream[i].gc = i
      BY <3>1 DEF StreamInv
    <3> QED
      BY <2>6, <3>1, <3>2 DEF StreamInv
  <2> QED
    BY <2>2, <2>3, <2>6, <2>9 DEF Acknowledged
<1> QED
  BY <1>1, <1>2, <1>3, PTL DEF Spec

-----------------------------------------------------------------------------
(* Rows and outcomes keep what was recorded *)

\* A pass that has read its minute, and may still commit under it.
Active(a) == pass[a].phase \in {"loaded", "reading", "released"}

\* Passes that may still commit do so under different minutes.
MinuteInv ==
  /\ lastPass <= minute
  /\ \A a \in Actors : Active(a) =>
       /\ pass[a].ts <= lastPass
       /\ Jobs = {} => pass[a].incremental
       /\ \A b \in Actors : a # b /\ Active(b) => pass[a].ts # pass[b].ts

\* The history entries whose minute is that of the pass that made them: a full
\* fetch records each pause under the minute it happened in.
ByPass(e) == Kind(e[1]) = "bad" \/ Jobs = {}

\* No pass commits under the minute of an earlier commit, and what is recorded
\* shows in the tables until retention drops it.
EvidenceInv ==
  \A e \in recorded : ByPass(e) =>
    /\ e[2] <= lastPass
    /\ \A a \in Actors : Active(a) => pass[a].ts # e[2]
    /\ \/ e[2] < lastPass - Retention
       \/ /\ Kind(e[1]) = "bad" => quality[e[2]] \in {"unknown", "partial"}
          /\ Kind(e[1]) = "pause" => e[1] \in metrics[e[2]]

\* A step neither starts nor commits a pass, as far as a's minute is concerned.
SamePass(a) ==
  Active(a)' => Active(a) /\ pass'[a].ts = pass[a].ts /\ pass'[a].incremental = pass[a].incremental

Begins(a) ==
  /\ MayStart /\ lastPass' = minute
  /\ pass'[a].ts = minute
  /\ Jobs = {} => pass'[a].incremental
  /\ \A b \in Actors : b # a => pass'[b] = pass[b]

Commits(a) ==
  /\ Active(a) /\ (Record(a) \/ RecordNothing(a))
  /\ ~Active(a)'
  /\ \A b \in Actors : b # a => pass'[b] = pass[b]

\* Every step is one of a log, of the clock, or of passes in one of three ways.
LEMMA StepShape ==
  ASSUME TypeInv, [Next]_vars
  PROVE  /\ \/ Log
            \/ UNCHANGED logVars
         /\ minute' \in {minute, minute + 1}
         /\ \/ UNCHANGED <<dbVars, lastPass>> /\ \A a \in Actors : SamePass(a)
            \/ UNCHANGED <<minute, dbVars>> /\ \E a \in Actors : Begins(a)
            \/ UNCHANGED <<minute, lastPass>> /\ \E a \in Actors : Commits(a)
<1>1. /\ pass \in [Actors -> PassRecord] /\ Tick \in Actors /\ Jobs \subseteq Actors
      /\ Idle.phase = "idle" /\ Idle.incremental = TRUE
  BY DEF TypeInv, TypeOK, Actors, Idle
<1>2. CASE Log \/ NextMinute \/ UNCHANGED vars
  BY <1>2 DEF Log, LogPause, LogStart, LogNote, LogBad, WriteLine, JvmRestart, Rotate,
              NextMinute, vars, logVars, dbVars, SamePass, Active
<1>3. ASSUME NEW a \in Actors, NEW p \in Paths, ReadPath(a, p)
      PROVE  UNCHANGED <<logVars, minute, dbVars, lastPass>> /\ \A b \in Actors : SamePass(b)
  <2>1. UNCHANGED <<logVars, minute, dbVars, lastPass>>
    BY <1>3 DEF ReadPath
  <2>2. ASSUME NEW b \in Actors PROVE SamePass(b)
    <3>1. /\ pass'[b].phase = pass[b].phase /\ pass'[b].ts = pass[b].ts
          /\ pass'[b].incremental = pass[b].incremental
      BY <1>3, ReadShape
    <3> QED
      BY <3>1 DEF SamePass, Active
  <2> QED
    BY <2>1, <2>2
<1>4. CASE TickStart \/ TickRelease \/ TickAbort \/ Crash \/ \E j \in Jobs : Submit(j) \/ JobFail(j)
  <2>1. UNCHANGED <<logVars, minute, dbVars, lastPass>>
    BY <1>4 DEF TickStart, TickRelease, TickAbort, Crash, Submit, JobFail
  <2>2. ASSUME NEW a \in Actors PROVE SamePass(a)
    <3>1. pass[a] \in PassRecord /\ pass[Tick] \in PassRecord
      BY <1>1
    <3>2. CASE TickStart
      BY <1>1, <3>1, <3>2 DEF TickStart, SamePass, Active, PassRecord
    <3>3. CASE TickRelease
      BY <1>1, <3>1, <3>3 DEF TickRelease, SamePass, Active, PassRecord
    <3>4. CASE Crash
      BY <1>1, <3>4 DEF Crash, SamePass, Active
    <3>5. CASE \E j \in Jobs : Submit(j)
      BY <1>1, <3>1, <3>5 DEF Submit, SamePass, Active, PassRecord
    <3>6. CASE \E j \in Jobs : JobFail(j)
      BY <1>1, <3>1, <3>6 DEF JobFail, SamePass, Active
    <3>7. CASE TickAbort
      BY <1>1, <3>1, <3>7 DEF TickAbort, SamePass, Active
    <3> QED
      BY <1>4, <3>2, <3>3, <3>4, <3>5, <3>6, <3>7
  <2> QED
    BY <2>1, <2>2
<1>5. CASE TickLoad \/ \E j \in Jobs : JobStart(j)
  <2>1. UNCHANGED <<logVars, minute, dbVars>>
    BY <1>5 DEF TickLoad, JobStart
  <2>2. CASE TickLoad
    <3>1. Begins(Tick)
      BY <1>1, <2>2 DEF TickLoad, Begins, Idle
    <3> QED
      BY <1>1, <2>1, <3>1
  <2>3. ASSUME NEW j \in Jobs, JobStart(j)
        PROVE  Begins(j)
    BY <1>1, <2>3 DEF JobStart, Begins, Idle
  <2> QED
    BY <1>1, <1>5, <2>1, <2>2, <2>3
<1>6. CASE TickCommit \/ TickFail \/ \E j \in Jobs : JobCommit(j)
  <2>1. UNCHANGED <<logVars, minute, lastPass>>
    BY <1>6 DEF TickCommit, TickFail, JobCommit
  <2>2. CASE TickCommit \/ TickFail
    <3>1. Commits(Tick)
      BY <1>1, <2>2 DEF TickCommit, TickFail, Commits, Active
    <3> QED
      BY <1>1, <2>1, <3>1
  <2>3. ASSUME NEW j \in Jobs, JobCommit(j)
        PROVE  Commits(j)
    BY <1>1, <2>3 DEF JobCommit, Commits, Active
  <2> QED
    BY <1>1, <1>6, <2>1, <2>2, <2>3
<1> QED
  BY <1>2, <1>3, <1>4, <1>5, <1>6 DEF Next, Work, Fault, TickStep, JobStep, JobRun, Actors, logVars

LEMMA MinuteTypes ==
  ASSUME TypeInv
  PROVE  /\ minute \in Nat /\ lastPass \in Int /\ Retention \in Nat
         /\ \A a \in Actors : pass[a].ts \in Minutes /\ pass[a].ts \in Nat
         /\ \A e \in recorded : e = <<e[1], e[2]>> /\ e[1] \in 1 .. Len(stream) /\ e[2] \in Minutes /\ e[2] \in Nat
<1>1. /\ minute \in Minutes /\ lastPass \in Minutes \cup {-1} /\ Minutes \subseteq Nat
      /\ recorded \subseteq (1 .. Len(stream)) \X Minutes
      /\ \A a \in Actors : pass[a] \in PassRecord
  BY MinutesType DEF TypeInv, TypeOK
<1>2. \A a \in Actors : pass[a].ts \in Minutes
  BY <1>1 DEF PassRecord
<1>3. \A e \in recorded : e = <<e[1], e[2]>> /\ e[1] \in 1 .. Len(stream) /\ e[2] \in Minutes
  BY <1>1
<1>4. minute \in Nat /\ lastPass \in Int /\ Retention \in Nat /\ \A a \in Actors : pass[a].ts \in Nat
  <2>1. lastPass \in Int
    <3>1. \A m \in Nat \cup {-1} : m \in Int
      OBVIOUS
    <3> QED
      BY <1>1, <3>1
  <2>2. minute \in Nat /\ \A a \in Actors : pass[a].ts \in Nat
    BY <1>1, <1>2
  <2> QED
    BY <2>1, <2>2, BoundAssumption
<1>5. \A e \in recorded : e[2] \in Nat
  BY <1>1, <1>3
<1> QED
  BY <1>2, <1>3, <1>4, <1>5

LEMMA NextMinuteInv ==
  ASSUME SplitMinute = FALSE, TypeInv, TypeInv', MinuteInv, [Next]_vars
  PROVE  MinuteInv'
<1>1. CASE UNCHANGED lastPass /\ \A a \in Actors : SamePass(a)
  BY <1>1, StepShape, MinuteTypes DEF MinuteInv, SamePass
<1>2. CASE UNCHANGED minute /\ \E a \in Actors : Begins(a)
  BY <1>2, MinuteTypes DEF MinuteInv, Begins, MayStart, Active
<1>3. CASE UNCHANGED <<minute, lastPass>> /\ \E a \in Actors : Commits(a)
  BY <1>3 DEF MinuteInv, Commits, Active
<1> QED
  BY <1>1, <1>2, <1>3, StepShape

\* What a commit adds is of the pass's own minute, but for a full fetch.
LEMMA RecordedByPass ==
  ASSUME TypeInv, MinuteInv, NEW a \in Actors, Active(a), Record(a),
         NEW e \in recorded', e \notin recorded, ByPass(e)
  PROVE  /\ e[2] = pass[a].ts /\ e[1] \in pass[a].got
         /\ Kind(e[1]) = "bad" => Outcome(a) \in {"unknown", "partial"}
         /\ Kind(e[1]) = "pause" => e[1] \in Rows(a)[e[2]]
<1>1. CASE e \in Skipped(pass[a].got) \X {pass[a].ts}
  BY <1>1 DEF Skipped, Outcome
<1>2. CASE e \in {x \in Pauses(pass[a].got) \X Minutes : x[1] \in Rows(a)[x[2]]}
  <2>1. Kind(e[1]) = "pause" /\ e[2] \in Minutes /\ e[1] \in Rows(a)[e[2]] /\ e[1] \in pass[a].got
    BY <1>2 DEF Pauses
  <2>2. pass[a].incremental
    BY <2>1 DEF ByPass, MinuteInv
  <2> QED
    BY <2>1, <2>2 DEF Rows
<1> QED
  BY <1>1, <1>2 DEF Record

\* A commit leaves the rows and outcomes of other minutes alone, but for those
\* whose time is over.
LEMMA CommitElsewhere ==
  ASSUME TypeInv, MinuteInv, NEW a \in Actors, Active(a), Record(a) \/ RecordNothing(a),
         NEW m \in Minutes, ~(m < lastPass - Retention)
  PROVE  /\ ~Expired(a, m)
         /\ m # pass[a].ts => quality'[m] = quality[m]
         /\ m # pass[a].ts /\ Jobs = {} => metrics'[m] = metrics[m]
<1>1. ~Expired(a, m)
  BY MinuteTypes, MinutesType DEF MinuteInv, Expired
<1> QED
  BY <1>1 DEF Record, RecordNothing, Rows, MinuteInv

LEMMA CommitEvidence ==
  ASSUME TypeInv, TypeInv', MinuteInv, EvidenceInv, UNCHANGED <<logVars, lastPass>>,
         NEW a \in Actors, Commits(a)
  PROVE  EvidenceInv'
<1> SUFFICES ASSUME NEW e \in recorded', ByPass(e)'
             PROVE  /\ e[2] <= lastPass
                    /\ \A b \in Actors : Active(b)' => pass'[b].ts # e[2]
                    /\ \/ e[2] < lastPass - Retention
                       \/ /\ Kind(e[1]) = "bad" => quality'[e[2]] \in {"unknown", "partial"}
                          /\ Kind(e[1]) = "pause" => e[1] \in metrics'[e[2]]
  BY DEF EvidenceInv, Kind, logVars
<1>1. ByPass(e) /\ e[2] \in Minutes /\ Active(a) /\ (Record(a) \/ RecordNothing(a)) /\ ~Active(a)'
  <2>1. e[2] \in Minutes
    BY DEF TypeInv, TypeOK
  <2> QED
    BY <2>1 DEF ByPass, Kind, logVars, Commits
<1>2. \A b \in Actors : Active(b)' => b # a /\ Active(b) /\ pass'[b] = pass[b]
  BY <1>1 DEF Commits, Active
<1>3. CASE e \in recorded
  <2>1. /\ e[2] <= lastPass
        /\ \A b \in Actors : Active(b) => pass[b].ts # e[2]
        /\ \/ e[2] < lastPass - Retention
           \/ /\ Kind(e[1]) = "bad" => quality[e[2]] \in {"unknown", "partial"}
              /\ Kind(e[1]) = "pause" => e[1] \in metrics[e[2]]
    BY <1>1, <1>3 DEF EvidenceInv
  <2>2. Kind(e[1]) = "pause" => Jobs = {}
    BY <1>1 DEF ByPass
  <2> QED
    BY <1>1, <1>2, <2>1, <2>2, CommitElsewhere
<1>4. CASE e \notin recorded
  <2>1. Record(a)
    BY <1>1, <1>4 DEF RecordNothing
  <2>2. /\ e[2] = pass[a].ts /\ e[1] \in pass[a].got
        /\ Kind(e[1]) = "bad" => Outcome(a) \in {"unknown", "partial"}
        /\ Kind(e[1]) = "pause" => e[1] \in Rows(a)[e[2]]
    BY <1>1, <1>4, <2>1, RecordedByPass
  <2>3. e[2] <= lastPass /\ \A b \in Actors : Active(b)' => pass'[b].ts # e[2]
    BY <1>1, <1>2, <2>2 DEF MinuteInv
  <2>4. CASE ~(e[2] < lastPass - Retention)
    <3>1. ~Expired(a, e[2])
      BY <1>1, <2>4, CommitElsewhere
    <3> QED
      BY <1>1, <2>1, <2>2, <2>3, <3>1 DEF Record
  <2> QED
    BY <2>3, <2>4
<1> QED
  BY <1>3, <1>4

LEMMA NextEvidence ==
  ASSUME SplitMinute = FALSE, TypeInv, TypeInv', MinuteInv, EvidenceInv, [Next]_vars
  PROVE  EvidenceInv'
<1>1. CASE \E a \in Actors : UNCHANGED lastPass /\ Commits(a)
  <2>1. UNCHANGED logVars
    <3>1. ASSUME Log PROVE FALSE
      <4>1. UNCHANGED <<pass>>
        BY <3>1 DEF Log, LogPause, LogStart, LogNote, LogBad, WriteLine, JvmRestart, Rotate
      <4> QED
        BY <1>1, <4>1 DEF Commits, Active
    <3> QED
      BY <3>1, StepShape
  <2> QED
    BY <1>1, <2>1, CommitEvidence
<1>2. ASSUME UNCHANGED dbVars,
             \/ UNCHANGED lastPass /\ \A a \in Actors : SamePass(a)
             \/ UNCHANGED minute /\ \E a \in Actors : Begins(a)
      PROVE  EvidenceInv'
  <2> SUFFICES ASSUME NEW e \in recorded, ByPass(e)'
               PROVE  /\ e[2] <= lastPass'
                      /\ \A a \in Actors : Active(a)' => pass'[a].ts # e[2]
                      /\ \/ e[2] < lastPass' - Retention
                         \/ /\ Kind(e[1])' = "bad" => quality[e[2]] \in {"unknown", "partial"}
                            /\ Kind(e[1])' = "pause" => e[1] \in metrics[e[2]]
    BY <1>2 DEF EvidenceInv, dbVars
  <2>1. Grows
    BY StepShape, LogType, SameGrows
  <2>2. Kind(e[1])' = Kind(e[1])
    BY <2>1, MinuteTypes DEF Grows, Kind
  <2>3. /\ e[2] <= lastPass
        /\ \A a \in Actors : Active(a) => pass[a].ts # e[2]
        /\ \/ e[2] < lastPass - Retention
           \/ /\ Kind(e[1]) = "bad" => quality[e[2]] \in {"unknown", "partial"}
              /\ Kind(e[1]) = "pause" => e[1] \in metrics[e[2]]
    BY <2>2 DEF EvidenceInv, ByPass
  <2>4. CASE UNCHANGED lastPass /\ \A a \in Actors : SamePass(a)
    BY <2>2, <2>3, <2>4 DEF SamePass
  <2>5. CASE UNCHANGED minute /\ \E a \in Actors : Begins(a)
    <3>1. PICK a \in Actors : Begins(a)
      BY <2>5
    <3>2. e[2] <= lastPass' /\ lastPass < lastPass' /\ lastPass \in Int /\ lastPass' \in Int
          /\ e[2] \in Nat /\ e[2] < minute
      BY <2>3, <3>1, MinuteTypes DEF Begins, MayStart
    <3>3. \A b \in Actors : Active(b)' => pass'[b].ts # e[2]
      BY <2>3, <3>1, <3>2, MinuteTypes DEF Begins, Active
    <3>4. e[2] < lastPass - Retention => e[2] < lastPass' - Retention
      BY <3>2, MinuteTypes
    <3> QED
      BY <2>2, <2>3, <3>2, <3>3, <3>4
  <2> QED
    BY <1>2, <2>4, <2>5
<1> QED
  BY <1>1, <1>2, StepShape

LEMMA InitEvidence == Init => MinuteInv /\ EvidenceInv
<1> SUFFICES ASSUME Init PROVE MinuteInv /\ EvidenceInv
  OBVIOUS
<1>1. minute = 0 /\ lastPass = -1 /\ recorded = {} /\ \A a \in Actors : ~Active(a)
  BY DEF Init, Idle, Active
<1> QED
  BY <1>1 DEF MinuteInv, EvidenceInv

\* Where every log has an inode number of its own and every pass a minute of its
\* own, a rejected line that the next pass will skip stays reported: the outcome
\* recorded for its minute is not "complete" until retention drops it, with any
\* mix of ticks and jobs (SkippedIsReported, for all constants).
THEOREM RejectedStayReported ==
  ASSUME IdentityReuse = FALSE, SplitMinute = FALSE
  PROVE  Spec => []SkippedIsReported
<1> DEFINE Inv == TypeInv /\ IInv /\ MinuteInv /\ EvidenceInv
<1>1. Init => Inv
  BY InitTypeInv, InitCovered, InitEvidence
<1>2. Inv /\ [Next]_vars => Inv'
  <2> SUFFICES ASSUME Inv, [Next]_vars PROVE Inv'
    OBVIOUS
  <2>1. TypeInv'
    BY NextType
  <2> QED
    BY <2>1, NextCovered, NextMinuteInv, NextEvidence
<1>3. Inv => SkippedIsReported
  <2> SUFFICES ASSUME Inv, NEW f \in Live, NEW i \in Skipped(Acknowledged(f))
               PROVE  \E m \in Minutes : /\ <<i, m>> \in recorded
                                         /\ \/ m < lastPass - Retention
                                            \/ quality[m] \in {"unknown", "partial"}
    BY DEF SkippedIsReported
  <2>1. i \in Acknowledged(f) /\ Kind(i) = "bad"
    BY DEF Skipped
  <2>2. PICK m \in Minutes : <<i, m>> \in recorded
    BY <2>1, CoveredIsRecorded DEF Marked
  <2> QED
    BY <2>1, <2>2 DEF EvidenceInv, ByPass
<1> QED
  BY <1>1, <1>2, <1>3, PTL DEF Spec

\* Where only the scheduler collects and every pass has a minute of its own, a
\* row that summarises a pause keeps it until retention drops the row: no later
\* pass, failure or crash takes it away (EvidenceKept, for all constants).
THEOREM RowsKeepPauses ==
  ASSUME Jobs = {}, SplitMinute = FALSE
  PROVE  Spec => []EvidenceKept
<1> DEFINE Inv == TypeInv /\ MinuteInv /\ EvidenceInv
<1>1. Init => Inv
  BY InitTypeInv, InitEvidence
<1>2. Inv /\ [Next]_vars => Inv'
  <2> SUFFICES ASSUME Inv, [Next]_vars PROVE Inv'
    OBVIOUS
  <2>1. TypeInv'
    BY NextType
  <2> QED
    BY <2>1, NextMinuteInv, NextEvidence
<1>3. Inv => EvidenceKept
  BY DEF EvidenceInv, ByPass, EvidenceKept
<1> QED
  BY <1>1, <1>2, <1>3, PTL DEF Spec

-----------------------------------------------------------------------------
(* No pause is counted twice, with the scheduler alone *)

Lines(f) == Span(f, 0, files[f].size)

\* Line i of file f lies behind the offset e.
Behind(e, f, i) == e.ino = f /\ i <= files[f].first + e.offset

\* A file has one path at most, and files follow each other in the stream.
LayoutInv ==
  /\ \A p, q \in Paths : dir[p] = dir[q] /\ dir[p] # 0 => p = q
  /\ \A f, g \in DOMAIN files : f < g => files[f].first + files[f].size <= files[g].first

\* A pause that a row counts will not be read again, unless it is torn.
RowsInv ==
  \A m \in Minutes : \A f \in Live : \A i \in metrics[m] \cap Lines(f) :
    i \in torn \/ \E q \in Paths : Behind(offsets[q], f, i)

\* The new offsets of the pass r are those of the lines and files it has read.
ReadInv(r) ==
  /\ \A p \in r.todo : r.new[p] = NoEntry
  /\ \A f \in DOMAIN files : \A i \in r.got \cap Lines(f) : \E q \in Paths : Behind(r.new[q], f, i)
  /\ \A f \in r.seen : f # 0 /\ \E q \in Paths :
       r.new[q].ino = f /\ \A p \in Paths : r.prev[p].ino = f => r.prev[p].offset <= r.new[q].offset

\* A file read before has been read again, or is still to be, or has lost its
\* path to another file meanwhile.
ListedInv(r) ==
  \A f \in Live : (\E q \in Paths : r.prev[q].ino = f) =>
    \/ f \in r.seen
    \/ \E p \in r.todo : dir[p] = f
    \/ f # dir[Current] /\ Lines(f) \subseteq torn

TickInv ==
  LET r == pass[Tick] IN
  /\ Active(Tick) => r.incremental /\ r.prev = offsets /\ ReadInv(r)
  /\ Active(Tick) => \A m \in Minutes : r.got \cap metrics[m] \subseteq torn
  /\ r.phase = "loaded" => r.got = {} /\ r.seen = {} /\ r.new = NoRows
  /\ r.phase = "released" => r.todo = {}
  /\ r.phase \in {"reading", "released"} => ListedInv(r)

CountInv == LayoutInv /\ RowsInv /\ TickInv /\ NoDoubleCount

LEMMA LiveFiles ==
  ASSUME TypeInv
  PROVE  /\ Len(files) \in Nat /\ DOMAIN files = 1 .. Len(files) /\ Live \subseteq DOMAIN files
         /\ \A f \in DOMAIN files : /\ files[f].first \in Nat /\ files[f].size \in Nat
                                    /\ Lines(f) \subseteq 1 .. Len(stream)
         /\ dir[Current] = Len(files) /\ Len(files) \in Live
         /\ Len(stream) \in Nat /\ files[Len(files)].first + files[Len(files)].size = Len(stream)
<1>1. files \in Seq(File) /\ dir \in [Paths -> 0 .. Len(files)] /\ Len(stream) \in Nat
  BY DEF TypeInv, TypeOK
<1>2. Len(files) \in Nat /\ DOMAIN files = 1 .. Len(files) /\ \A f \in 1 .. Len(files) : files[f] \in File
  BY <1>1
<1>3. Live \subseteq 1 .. Len(files)
  BY <1>1, <1>2 DEF Live, Listed
<1>4. \A f \in 1 .. Len(files) : files[f].first \in Nat /\ files[f].size \in Nat
  BY <1>2 DEF File
<1>5. \A f \in DOMAIN files : Lines(f) \subseteq 1 .. Len(stream)
  BY <1>2, <1>4, SpanType DEF Lines
<1>6. Current \in Paths /\ dir[Current] = Len(files) /\ Len(files) # 0
      /\ files[Len(files)].first + files[Len(files)].size = Len(stream)
  BY <1>2 DEF Paths, TypeInv, FilesInv
<1>7. Len(files) \in Live
  BY <1>6 DEF Live, Listed
<1> QED
  BY <1>1, <1>2, <1>3, <1>4, <1>5, <1>6, <1>7

\* A file that is not the last ends before the last begins.
LEMMA WrittenLines ==
  ASSUME TypeInv, LayoutInv, NEW kind \in Kinds, NEW gc \in Nat, WriteLine(kind, gc)
  PROVE  /\ UNCHANGED <<dbVars, pass, torn, dir>> /\ Live' = Live /\ DOMAIN files' = DOMAIN files
         /\ \A f \in DOMAIN files : files'[f].first = files[f].first /\ files'[f].ino = files[f].ino
         /\ \A f \in DOMAIN files : f # dir[Current] => Lines(f)' = Lines(f)
         /\ \A f \in DOMAIN files : Lines(f)' \cap (1 .. Len(stream)) \subseteq Lines(f)
         /\ LayoutInv'
<1> DEFINE n == Len(files)
<1>1. /\ dir[Current] = n /\ n \in 1 .. n /\ files' \in Seq(File) /\ Len(files') = n
      /\ \A f \in 1 .. n :
           /\ files'[f].ino = files[f].ino /\ files'[f].first = files[f].first
           /\ files'[f].size = IF f = n THEN files[f].size + 1 ELSE files[f].size
           /\ files[f].first \in Nat /\ files[f].size \in Nat
  BY WriteLineFiles DEF TypeInv
<1>2. UNCHANGED <<dbVars, pass, torn, dir>>
  BY DEF WriteLine
<1>3. DOMAIN files = 1 .. n /\ DOMAIN files' = 1 .. n /\ n \in Nat
  BY <1>1, LiveFiles
<1>4. Live' = Live
  BY <1>2 DEF Live, Listed
<1>5. \A f \in 1 .. n : f # n => Lines(f)' = Lines(f)
  BY <1>1 DEF Lines, Span
<1>6. ASSUME NEW f \in 1 .. n, f = n PROVE Lines(f)' \cap (1 .. Len(stream)) \subseteq Lines(f)
  <2>1. /\ files'[n].first = files[n].first /\ files'[n].size = files[n].size + 1
        /\ files[n].first \in Nat /\ files[n].size \in Nat
        /\ files[n].first + files[n].size = Len(stream)
    BY <1>1, LiveFiles
  <2> HIDE DEF n
  <2> QED
    BY <1>6, <2>1 DEF Lines, Span
<1>7. LayoutInv'
  <2>1. ASSUME NEW f \in 1 .. n, NEW g \in 1 .. n, f < g
        PROVE  files'[f].first + files'[f].size <= files'[g].first
    <3>1. f # n
      <4> HIDE DEF n
      <4> QED
        BY <1>3, <2>1
    <3> QED
      BY <1>1, <1>3, <2>1, <3>1 DEF LayoutInv
  <2> QED
    BY <1>2, <1>3, <2>1 DEF LayoutInv
<1> QED
  BY <1>1, <1>2, <1>3, <1>4, <1>5, <1>6, <1>7

LEMMA RotatedLines ==
  ASSUME TypeInv, LayoutInv, Rotate
  PROVE  /\ UNCHANGED <<dbVars, pass>> /\ torn \subseteq torn' /\ Live' \subseteq Live \cup {Len(files) + 1}
         /\ DOMAIN files' = 1 .. Len(files) + 1
         /\ \A f \in DOMAIN files : files'[f] = files[f] /\ Lines(f)' = Lines(f)
         /\ \A f \in DOMAIN files' : f \notin DOMAIN files => Lines(f)' = {}
         /\ Current \in pass[Tick].todo => Lines(dir[Current]) \subseteq torn'
         /\ dir'[Current] = Len(files) + 1
         /\ \A p \in Paths : dir[p] \in Live' /\ p # Current => dir'[p] = dir[p]
         /\ LayoutInv'
<1> DEFINE n == Len(files)
<1>1. /\ files' \in Seq(File) /\ n \in Nat /\ Len(files') = n + 1
      /\ \A f \in 1 .. n : files'[f] = files[f]
      /\ files'[n + 1].first = Len(stream) /\ files'[n + 1].size = 0
      /\ dir' \in [Paths -> 0 .. n + 1]
  BY RotateFiles DEF TypeInv
<1>2. PICK slot \in Archives : \A p \in Paths :
        dir'[p] = IF p = Current THEN n + 1 ELSE IF p = slot THEN dir[Current] ELSE dir[p]
  BY RotateFiles DEF TypeInv
<1>3. UNCHANGED <<dbVars, pass, stream>> /\ torn \subseteq torn'
  BY DEF Rotate
<1>4. Current \in pass[Tick].todo => Lines(dir[Current]) \subseteq torn'
  BY DEF Rotate, Lines, Actors
<1>5. /\ DOMAIN files = 1 .. n /\ DOMAIN files' = 1 .. n + 1 /\ Current \in Paths /\ slot \in Paths
      /\ Current # slot /\ dir[Current] = n /\ dir \in [Paths -> 0 .. n] /\ Len(stream) \in Nat
      /\ \A f \in 1 .. n : files[f].first \in Nat /\ files[f].size \in Nat
  BY <1>1, LiveFiles, PathAssumption DEF Paths, TypeInv, TypeOK
<1>6. \A f \in DOMAIN files : Lines(f)' = Lines(f)
  BY <1>1, <1>5 DEF Lines, Span
<1>7. ASSUME NEW f \in DOMAIN files', f \notin DOMAIN files PROVE Lines(f)' = {}
  <2> HIDE DEF n
  <2>1. f = n + 1
    BY <1>1, <1>5, <1>7
  <2> QED
    BY <1>1, <1>5, <2>1 DEF Lines, Span
<1>8. Live' \subseteq Live \cup {n + 1}
  <2>1. ASSUME NEW p \in Paths, dir'[p] # 0 PROVE dir'[p] \in Live \cup {n + 1}
    BY <1>2, <1>5, <2>1 DEF Live, Listed
  <2> QED
    BY <2>1 DEF Live, Listed
<1>9. ASSUME NEW p \in Paths, NEW q \in Paths, dir'[p] = dir'[q], dir'[p] # 0 PROVE p = q
  <2>1. n + 1 # n /\ \A r \in Paths : dir[r] # n + 1
    <3> HIDE DEF n
    <3> QED
      BY <1>1, <1>5
  <2>2. dir[Current] # 0 /\ \A r, s \in Paths : dir[r] = dir[s] /\ dir[r] # 0 => r = s
    BY DEF LayoutInv, TypeInv, TypeOK
  <2> HIDE DEF n
  <2> QED
    BY <1>2, <1>5, <1>9, <2>1, <2>2
<1>10. ASSUME NEW p \in Paths, dir[p] \in Live', p # Current PROVE dir'[p] = dir[p]
  <2>1. CASE p # slot
    BY <1>2, <1>10, <2>1
  <2>2. CASE p = slot
    <3>1. PICK q \in Paths : dir'[q] = dir[p] /\ dir'[q] # 0
      BY <1>10 DEF Live, Listed
    <3>2. \A r, s \in Paths : dir[r] = dir[s] /\ dir[r] # 0 => r = s
      BY DEF LayoutInv
    <3> HIDE DEF n
    <3>3. dir[p] # n + 1 /\ n + 1 # n
      BY <1>1, <1>5
    <3>4. q # Current
      BY <1>2, <3>1, <3>3
    <3>5. CASE q = slot
      BY <1>2, <1>5, <2>2, <3>1, <3>5
    <3>6. CASE q # slot
      BY <1>2, <2>2, <3>1, <3>2, <3>4, <3>6
    <3> QED
      BY <3>5, <3>6
  <2> QED
    BY <2>1, <2>2
<1>11. ASSUME NEW f \in 1 .. n + 1, NEW g \in 1 .. n + 1, f < g
       PROVE  files'[f].first + files'[f].size <= files'[g].first
  <2>1. f \in 1 .. n
    BY <1>1, <1>11
  <2>2. CASE g = n + 1
    <3>1. files[f].first + files[f].size <= Len(stream)
      BY <1>5, <2>1 DEF TypeInv, FilesInv
    <3> QED
      BY <1>1, <2>1, <2>2, <3>1
  <2>3. CASE g # n + 1
    <3>1. g \in 1 .. n
      BY <1>1, <2>3
    <3> QED
      BY <1>1, <1>5, <1>11, <2>1, <3>1 DEF LayoutInv
  <2> QED
    BY <2>2, <2>3
<1>12. LayoutInv'
  BY <1>5, <1>9, <1>11 DEF LayoutInv
<1> QED
  BY <1>1, <1>2, <1>3, <1>4, <1>5, <1>6, <1>7, <1>8, <1>10, <1>12

\* What the JVM does to a log leaves every count as it was.
LEMMA LogKeepsCounts ==
  ASSUME TypeInv, TypeInv', CountInv, UNCHANGED <<dbVars, pass>>, torn \subseteq torn', LayoutInv',
         \A f \in Live' : f \in DOMAIN files => f \in Live,
         \A f \in DOMAIN files : /\ files'[f].first = files[f].first
                                 /\ Lines(f)' \cap (1 .. Len(stream)) \subseteq Lines(f),
         \A f \in DOMAIN files' : f \notin DOMAIN files => Lines(f)' = {},
         pass[Tick].phase \in {"reading", "released"} => ListedInv(pass[Tick])'
  PROVE  CountInv'
<1> DEFINE r == pass[Tick]
<1>1. UNCHANGED <<offsets, metrics>> /\ pass' = pass
  BY DEF dbVars
<1>2. /\ Live' \subseteq DOMAIN files' /\ r.got \subseteq 1 .. Len(stream)
      /\ \A m \in Minutes : metrics[m] \subseteq 1 .. Len(stream)
  <2>1. files' \in Seq(File) /\ dir' \in [Paths -> 0 .. Len(files')]
    BY DEF TypeInv, TypeOK
  <2>2. Live' \subseteq DOMAIN files'
    BY <2>1 DEF Live, Listed
  <2>3. pass[Tick] \in PassRecord
    BY DEF TypeInv, TypeOK, Actors
  <2>4. r.got \subseteq 1 .. Len(stream)
    BY <2>3 DEF PassRecord
  <2> QED
    BY <2>2, <2>4 DEF TypeInv, TypeOK
<1>4. RowsInv'
  <2>1. ASSUME NEW m \in Minutes, NEW f \in Live', NEW i \in metrics[m] \cap Lines(f)'
        PROVE  i \in torn' \/ \E q \in Paths : offsets[q].ino = f /\ i <= files'[f].first + offsets[q].offset
    <3>1. f \in DOMAIN files /\ f \in Live /\ i \in Lines(f)
      BY <1>2
    <3> QED
      BY <3>1 DEF CountInv, RowsInv, Behind
  <2> QED
    BY <1>1, <2>1 DEF RowsInv, Behind
<1>5. ASSUME ReadInv(r) PROVE ReadInv(r)'
  <2>1. ASSUME NEW f \in DOMAIN files', NEW i \in r.got \cap Lines(f)'
        PROVE  \E q \in Paths : r.new[q].ino = f /\ i <= files'[f].first + r.new[q].offset
    <3>1. f \in DOMAIN files /\ i \in Lines(f)
      BY <1>2
    <3> QED
      BY <1>5, <3>1 DEF ReadInv, Behind
  <2> QED
    BY <1>1, <1>5, <2>1 DEF ReadInv, Behind
<1>6. TickInv'
  <2>1. Active(Tick)' <=> Active(Tick)
    BY <1>1 DEF Active
  <2> QED
    BY <1>1, <1>5, <2>1 DEF CountInv, TickInv
<1>7. NoDoubleCount'
  BY <1>1 DEF CountInv, NoDoubleCount
<1> QED
  BY <1>4, <1>6, <1>7 DEF CountInv

LEMMA LogCount ==
  ASSUME TypeInv, TypeInv', IInv, CountInv, Log
  PROVE  CountInv'
<1> DEFINE r == pass[Tick]
<1>0. LayoutInv /\ (r.phase \in {"reading", "released"} => ListedInv(r))
  BY DEF CountInv, TickInv
<1>1. ASSUME NEW kind \in Kinds, NEW gc \in Nat, WriteLine(kind, gc)
      PROVE  CountInv'
  <2>1. /\ UNCHANGED <<dbVars, pass, torn, dir>> /\ Live' = Live /\ DOMAIN files' = DOMAIN files
        /\ \A f \in DOMAIN files : files'[f].first = files[f].first
        /\ \A f \in DOMAIN files : f # dir[Current] => Lines(f)' = Lines(f)
        /\ \A f \in DOMAIN files : Lines(f)' \cap (1 .. Len(stream)) \subseteq Lines(f)
        /\ LayoutInv'
    BY <1>0, <1>1, WrittenLines
  <2>2. ASSUME ListedInv(r) PROVE ListedInv(r)'
    <3>1. ASSUME NEW f \in Live, \E q \in Paths : r.prev[q].ino = f
          PROVE  \/ f \in r.seen
                 \/ \E p \in r.todo : dir[p] = f
                 \/ f # dir[Current] /\ Lines(f)' \subseteq torn
      <4>1. f \in DOMAIN files
        BY LiveFiles
      <4> QED
        BY <2>1, <2>2, <3>1, <4>1 DEF ListedInv
    <3> QED
      BY <2>1, <3>1 DEF ListedInv
  <2> QED
    BY <1>0, <2>1, <2>2, LogKeepsCounts
<1>2. CASE Rotate
  <2>1. /\ UNCHANGED <<dbVars, pass>> /\ torn \subseteq torn' /\ Live' \subseteq Live \cup {Len(files) + 1}
        /\ DOMAIN files' = 1 .. Len(files) + 1
        /\ \A f \in DOMAIN files : files'[f] = files[f] /\ Lines(f)' = Lines(f)
        /\ \A f \in DOMAIN files' : f \notin DOMAIN files => Lines(f)' = {}
        /\ Current \in r.todo => Lines(dir[Current]) \subseteq torn'
        /\ dir'[Current] = Len(files) + 1
        /\ \A p \in Paths : dir[p] \in Live' /\ p # Current => dir'[p] = dir[p]
        /\ LayoutInv'
    BY <1>0, <1>2, RotatedLines
  <2>2. Len(files) + 1 \notin DOMAIN files /\ Len(files) + 1 \notin 0 .. Len(files)
    BY LiveFiles
  <2>3. ASSUME ListedInv(r) PROVE ListedInv(r)'
    <3>1. ASSUME NEW f \in Live', \E q \in Paths : r.prev[q].ino = f
          PROVE  \/ f \in r.seen
                 \/ \E p \in r.todo : dir'[p] = f
                 \/ f # dir'[Current] /\ Lines(f)' \subseteq torn'
      <4>1. f # Len(files) + 1
        BY <2>2, <3>1 DEF IInv, PassFor, Covered, Actors
      <4>2. f \in Live /\ f \in DOMAIN files
        BY <2>1, <4>1, LiveFiles
      <4>3. CASE f \in r.seen \/ (f # dir[Current] /\ Lines(f) \subseteq torn)
        BY <2>1, <4>1, <4>2, <4>3
      <4>4. ASSUME NEW p \in r.todo, dir[p] = f
            PROVE  \/ \E q \in r.todo : dir'[q] = f
                   \/ f # dir'[Current] /\ Lines(f)' \subseteq torn'
        <5>1. p \in Paths
          BY DEF TypeInv, TypeOK, PassRecord, Actors
        <5>2. CASE p = Current
          BY <2>1, <4>1, <4>2, <4>4, <5>2
        <5>3. CASE p # Current
          BY <2>1, <3>1, <4>4, <5>1, <5>3
        <5> QED
          BY <5>2, <5>3
      <4> QED
        BY <2>3, <3>1, <4>2, <4>3, <4>4 DEF ListedInv
    <3> QED
      BY <2>1, <3>1 DEF ListedInv
  <2>4. \A f \in Live' : f \in DOMAIN files => f \in Live
    BY <2>1, <2>2
  <2>5. \A f \in DOMAIN files : /\ files'[f].first = files[f].first
                                /\ Lines(f)' \cap (1 .. Len(stream)) \subseteq Lines(f)
    BY <2>1
  <2> QED
    BY <1>0, <2>1, <2>3, <2>4, <2>5, LogKeepsCounts
<1>3. CASE JvmRestart
  BY <1>3 DEF JvmRestart, CountInv, LayoutInv, RowsInv, TickInv, NoDoubleCount, Active, Live, Listed,
              Lines, Span, Behind, ReadInv, ListedInv, dbVars
<1>4. NewGc \in Nat /\ open \in Nat /\ {"pause", "start", "note", "bad"} \subseteq Kinds
  BY DEF NewGc, TypeInv, TypeOK, Kinds
<1> QED
  BY <1>1, <1>2, <1>3, <1>4 DEF Log, LogPause, LogStart, LogNote, LogBad

\* A step of the pass that writes nothing.
LEMMA PassKeepsCounts ==
  ASSUME CountInv, UNCHANGED <<logVars, dbVars>>, TickInv'
  PROVE  CountInv'
BY DEF CountInv, LayoutInv, RowsInv, NoDoubleCount, Live, Listed, Lines, Span, Behind, logVars, dbVars

LEMMA ControlCount ==
  ASSUME TypeInv, CountInv, TickLoad \/ TickStart \/ TickRelease \/ TickAbort \/ Crash
  PROVE  CountInv'
<1>1. UNCHANGED <<logVars, dbVars>> /\ pass \in [Actors -> PassRecord] /\ Tick \in Actors
      /\ pass[Tick] \in PassRecord
  BY DEF TickLoad, TickStart, TickRelease, TickAbort, Crash, TypeInv, TypeOK, Actors
<1>2. UNCHANGED <<offsets, metrics, torn, dir>> /\ \A p \in Paths : NoRows[p] = NoEntry
  BY <1>1 DEF logVars, dbVars, NoRows
<1>3. CASE TickLoad
  <2> DEFINE s == [Idle EXCEPT !.phase = "loaded", !.ts = minute, !.prev = offsets]
  <2>1. pass'[Tick] = s
    BY <1>1, <1>3 DEF TickLoad
  <2>2. /\ s.phase = "loaded" /\ s.incremental = TRUE /\ s.prev = offsets /\ s.todo = {}
        /\ s.got = {} /\ s.seen = {} /\ s.new = NoRows
    BY DEF Idle
  <2> HIDE DEF s
  <2>3. TickInv'
    BY <1>2, <2>1, <2>2 DEF TickInv, ReadInv, Active
  <2> QED
    BY <1>1, <2>3, PassKeepsCounts
<1>4. CASE TickStart
  <2>1. /\ pass[Tick].phase = "loaded"
        /\ pass'[Tick] = [pass[Tick] EXCEPT !.phase = "reading", !.todo = Listed]
    BY <1>1, <1>4 DEF TickStart
  <2>2. /\ pass'[Tick].phase = "reading" /\ pass'[Tick].todo = Listed
        /\ pass'[Tick].incremental = pass[Tick].incremental /\ pass'[Tick].prev = pass[Tick].prev
        /\ pass'[Tick].got = pass[Tick].got /\ pass'[Tick].seen = pass[Tick].seen
        /\ pass'[Tick].new = pass[Tick].new
    BY <1>1, <2>1 DEF PassRecord
  <2>3. /\ pass[Tick].incremental /\ pass[Tick].prev = offsets
        /\ pass[Tick].got = {} /\ pass[Tick].seen = {} /\ pass[Tick].new = NoRows
    BY <2>1 DEF CountInv, TickInv, Active
  <2>4. Live' = Live /\ Listed \subseteq Paths /\ \A f \in Live : \E p \in Listed : dir[p] = f
    BY <1>2 DEF Live, Listed
  <2>5. ReadInv(pass[Tick])'
    BY <1>2, <2>2, <2>3, <2>4 DEF ReadInv
  <2>6. ListedInv(pass[Tick])'
    BY <1>2, <2>2, <2>4 DEF ListedInv
  <2>7. TickInv'
    BY <1>2, <2>2, <2>3, <2>5, <2>6 DEF TickInv
  <2> QED
    BY <1>1, <2>7, PassKeepsCounts
<1>5. CASE TickRelease
  <2>1. /\ pass[Tick].phase = "reading" /\ pass[Tick].todo = {}
        /\ pass'[Tick] = [pass[Tick] EXCEPT !.phase = "released"]
    BY <1>1, <1>5 DEF TickRelease
  <2>2. /\ pass'[Tick].phase = "released" /\ pass'[Tick].todo = pass[Tick].todo
        /\ pass'[Tick].incremental = pass[Tick].incremental /\ pass'[Tick].prev = pass[Tick].prev
        /\ pass'[Tick].got = pass[Tick].got /\ pass'[Tick].seen = pass[Tick].seen
        /\ pass'[Tick].new = pass[Tick].new
    BY <1>1, <2>1 DEF PassRecord
  <2>3. /\ pass[Tick].incremental /\ pass[Tick].prev = offsets /\ ReadInv(pass[Tick])
        /\ \A m \in Minutes : pass[Tick].got \cap metrics[m] \subseteq torn
        /\ ListedInv(pass[Tick])
    BY <2>1 DEF CountInv, TickInv, Active
  <2>4. ReadInv(pass[Tick])'
    BY <1>1, <2>2, <2>3 DEF ReadInv, Lines, Span, Behind, logVars
  <2>5. ListedInv(pass[Tick])'
    BY <1>1, <2>2, <2>3 DEF ListedInv, Lines, Span, Live, Listed, logVars
  <2>6. TickInv'
    BY <1>2, <2>1, <2>2, <2>3, <2>4, <2>5 DEF TickInv
  <2> QED
    BY <1>1, <2>6, PassKeepsCounts
<1>6. CASE TickAbort \/ Crash
  <2>1. pass'[Tick] = Idle /\ Idle.phase = "idle"
    BY <1>1, <1>6 DEF TickAbort, Crash, Idle
  <2>2. TickInv'
    BY <2>1 DEF TickInv, Active
  <2> QED
    BY <1>1, <2>2, PassKeepsCounts
<1> QED
  BY <1>3, <1>4, <1>5, <1>6

LEMMA OneFile ==
  ASSUME TypeInv, LayoutInv, NEW f \in DOMAIN files, NEW g \in DOMAIN files,
         NEW i \in Lines(f), i \in Lines(g)
  PROVE  f = g
<1>1. \A h \in DOMAIN files : files[h].first \in Nat /\ files[h].size \in Nat
  BY LiveFiles
<1>2. f \in Nat /\ g \in Nat
  BY LiveFiles
<1>3. ASSUME NEW h \in DOMAIN files, NEW k \in DOMAIN files, i \in Lines(h), i \in Lines(k), h < k
      PROVE  FALSE
  <2>1. files[h].first + files[h].size <= files[k].first
    BY <1>3 DEF LayoutInv
  <2> QED
    BY <1>1, <1>3, <2>1 DEF Lines, Span
<1> QED
  BY <1>2, <1>3

\* Where a pass resumes a file, no offset of that file lies further on.
LEMMA ResumesLast ==
  ASSUME TypeInv, IInv, NEW f \in DOMAIN files, NEW start, NEW q \in Paths,
         IsResumePoint(start, pass[Tick].prev, f, files[f].size), pass[Tick].prev[q].ino = f
  PROVE  pass[Tick].prev[q].offset <= start
<1>1. Covered(pass[Tick].prev[q], {})
  BY DEF IInv, PassFor, Actors
<1>2. pass[Tick].prev[q].offset <= files[f].size
  BY <1>1 DEF Covered
<1> QED
  BY <1>2 DEF IsResumePoint, Candidates

LEMMA ReadCount ==
  ASSUME TypeInv, IInv, CountInv, NEW p \in Paths, ReadPath(Tick, p)
  PROVE  CountInv'
<1> DEFINE f == dir[p]
           r == pass[Tick]
<1>1. UNCHANGED <<logVars, dbVars>> /\ r.phase = "reading" /\ p \in r.todo /\ f # 0 /\ Tick \in Actors
  BY DEF ReadPath, Actors
<1>2. f \in Live /\ f \in DOMAIN files /\ files[f].ino = f /\ files[f].size \in Nat /\ files[f].first \in Nat
  <2>1. f \in Live
    BY <1>1 DEF Live, Listed
  <2> QED
    BY <2>1, LiveFiles DEF IInv, FreshInodes
<1>3. /\ r \in PassRecord /\ r.new \in [Paths -> Entry] /\ r.todo \subseteq Paths
      /\ \A q \in Paths : r.prev[q].offset \in Nat
  <2>1. r \in PassRecord
    BY <1>1 DEF TypeInv, TypeOK
  <2> QED
    BY <2>1 DEF PassRecord, Entry
<1>4. /\ r.incremental /\ r.prev = offsets /\ ReadInv(r) /\ ListedInv(r) /\ LayoutInv /\ RowsInv
      /\ \A m \in Minutes : r.got \cap metrics[m] \subseteq torn
  BY <1>1 DEF CountInv, TickInv, Active
<1>5. /\ pass'[Tick].phase = "reading" /\ pass'[Tick].incremental = r.incremental
      /\ pass'[Tick].prev = r.prev /\ pass'[Tick].todo = r.todo \ {p}
  BY <1>1, ReadShape
<1>6. /\ Live' = Live /\ DOMAIN files' = DOMAIN files /\ torn' = torn /\ metrics' = metrics /\ offsets' = offsets
      /\ dir' = dir /\ \A g \in DOMAIN files : Lines(g)' = Lines(g)
      /\ \A e, g, i : Behind(e, g, i)' <=> Behind(e, g, i)
  BY <1>1 DEF logVars, dbVars, Live, Listed, Lines, Span, Behind
<1>7. \/ /\ files[f].ino \in r.seen
         /\ pass'[Tick].seen = r.seen /\ pass'[Tick].got = r.got /\ pass'[Tick].new = r.new
      \/ \E start \in 0 .. files[f].size : \E keep \in start .. files[f].size :
           /\ IsResumePoint(start, r.prev, files[f].ino, files[f].size)
           /\ pass'[Tick].seen = r.seen \cup {files[f].ino}
           /\ pass'[Tick].got = r.got \cup Span(f, start, keep)
           /\ pass'[Tick].new = [r.new EXCEPT ![p] = [ino |-> files[f].ino, offset |-> keep]]
  <2>1. Tick \in Actors
    BY DEF Actors
  <2> QED
    BY <2>1, ReadShape
<1> HIDE DEF r, f
<1>8. ASSUME f \in pass'[Tick].seen, r.seen \subseteq pass'[Tick].seen
      PROVE  ListedInv(pass[Tick])'
  <2>1. ASSUME NEW g \in Live, \E q \in Paths : r.prev[q].ino = g
        PROVE  \/ g \in pass'[Tick].seen
               \/ \E q \in r.todo \ {p} : dir[q] = g
               \/ g # dir[Current] /\ Lines(g) \subseteq torn
    BY <1>4, <1>8, <2>1 DEF ListedInv, f
  <2>2. Live \subseteq DOMAIN files
    BY LiveFiles
  <2> QED
    BY <1>5, <1>6, <2>1, <2>2 DEF ListedInv
<1>9. CASE /\ files[f].ino \in r.seen
           /\ pass'[Tick].seen = r.seen /\ pass'[Tick].got = r.got /\ pass'[Tick].new = r.new
  <2>1. ReadInv(pass[Tick])'
    BY <1>4, <1>5, <1>6, <1>9 DEF ReadInv
  <2>2. TickInv'
    BY <1>2, <1>4, <1>5, <1>6, <1>8, <1>9, <2>1 DEF TickInv
  <2> QED
    BY <1>1, <2>2, PassKeepsCounts
<1>10. ASSUME NEW start \in 0 .. files[f].size, NEW keep \in start .. files[f].size,
             IsResumePoint(start, r.prev, files[f].ino, files[f].size),
             pass'[Tick].seen = r.seen \cup {files[f].ino},
             pass'[Tick].got = r.got \cup Span(f, start, keep),
             pass'[Tick].new = [r.new EXCEPT ![p] = [ino |-> files[f].ino, offset |-> keep]]
      PROVE  CountInv'
  <2>0. IsResumePoint(start, r.prev, f, files[f].size) /\ pass'[Tick].seen = r.seen \cup {f}
    BY <1>2, <1>10
  <2>1. /\ start \in Nat /\ keep \in Nat /\ start <= keep /\ keep <= files[f].size
        /\ r.new[p] = NoEntry /\ NoEntry.ino = 0
    BY <1>1, <1>2, <1>4 DEF ReadInv, NoEntry
  <2>2. \A q \in Paths : pass'[Tick].new[q] = IF q = p THEN [ino |-> f, offset |-> keep] ELSE r.new[q]
    BY <1>2, <1>3, <1>10
  <2>3. Span(f, start, keep) \subseteq Lines(f)
    BY <1>2, <2>1 DEF Lines, Span
  <2>4. \A q \in r.todo \ {p} : pass'[Tick].new[q] = NoEntry
    BY <1>3, <1>4, <2>2 DEF ReadInv
  <2>5. ASSUME NEW g \in DOMAIN files, NEW i \in pass'[Tick].got \cap Lines(g)
        PROVE  \E q \in Paths : Behind(pass'[Tick].new[q], g, i)
    <3>1. CASE i \in r.got
      <4>1. PICK q \in Paths : Behind(r.new[q], g, i)
        BY <1>4, <3>1 DEF ReadInv
      <4>2. g # 0
        BY LiveFiles
      <4>3. q # p
        BY <2>1, <4>1, <4>2 DEF Behind
      <4> QED
        BY <2>2, <4>1, <4>3
    <3>2. CASE i \in Span(f, start, keep)
      <4>1. g = f
        BY <1>2, <1>4, <2>3, <3>2, OneFile
      <4>2. i <= files[f].first + keep
        BY <1>2, <2>1, <3>2 DEF Span
      <4> QED
        BY <2>2, <4>1, <4>2 DEF Behind
    <3> QED
      BY <1>10, <3>1, <3>2
  <2>6. ASSUME NEW g \in pass'[Tick].seen
        PROVE  /\ g # 0
               /\ \E q \in Paths :
                    /\ pass'[Tick].new[q].ino = g
                    /\ \A o \in Paths : r.prev[o].ino = g => r.prev[o].offset <= pass'[Tick].new[q].offset
    <3>1. CASE g \in r.seen
      <4>1. PICK q \in Paths : r.new[q].ino = g /\ \A o \in Paths :
                r.prev[o].ino = g => r.prev[o].offset <= r.new[q].offset
        BY <1>4, <3>1 DEF ReadInv
      <4>2. g # 0
        BY <1>4, <3>1 DEF ReadInv
      <4>3. q # p
        BY <2>1, <4>1, <4>2
      <4> QED
        BY <2>2, <4>1, <4>2, <4>3
    <3>2. CASE g = f
      <4>1. \A o \in Paths : r.prev[o].ino = f => r.prev[o].offset <= start
        BY <1>2, <2>0, ResumesLast DEF r
      <4>2. \A o \in Paths : r.prev[o].ino = f => r.prev[o].offset <= keep
        BY <1>3, <2>1, <4>1
      <4> QED
        BY <1>1, <2>2, <3>2, <4>2
    <3> QED
      BY <2>0, <3>1, <3>2
  <2>7. ReadInv(pass[Tick])'
    BY <1>5, <1>6, <2>4, <2>5, <2>6 DEF ReadInv
  <2>8. ASSUME NEW m \in Minutes, NEW i \in pass'[Tick].got \cap metrics[m]
        PROVE  i \in torn
    <3>1. CASE i \in r.got
      BY <1>4, <2>8, <3>1
    <3>2. CASE i \in Span(f, start, keep) /\ i \notin torn
      <4>1. PICK q \in Paths : Behind(r.prev[q], f, i)
        BY <1>2, <1>4, <2>3, <3>2 DEF RowsInv
      <4>2. r.prev[q].offset <= start
        BY <1>2, <2>0, <4>1, ResumesLast DEF r, Behind
      <4> QED
        BY <1>2, <1>3, <2>1, <3>2, <4>1, <4>2 DEF Behind, Span
    <3> QED
      BY <1>10, <3>1, <3>2
  <2>9. ListedInv(pass[Tick])'
    BY <1>8, <2>0
  <2>10. TickInv'
    BY <1>4, <1>5, <1>6, <2>7, <2>8, <2>9 DEF TickInv
  <2> QED
    BY <1>1, <2>10, PassKeepsCounts
<1> QED
  BY <1>7, <1>9, <1>10

LEMMA CommitCount ==
  ASSUME Jobs = {}, TypeInv, IInv, CountInv, TickCommit \/ TickFail
  PROVE  CountInv'
<1> DEFINE r == pass[Tick]
<1>1. /\ RecordNothing(Tick) \/ (Record(Tick) /\ r.phase = "released")
      /\ UNCHANGED logVars /\ r.phase \in {"reading", "released"}
      /\ pass' = [pass EXCEPT ![Tick] = Idle]
  BY DEF TickCommit, TickFail
<1>2. pass'[Tick] = Idle /\ Idle.phase = "idle"
  BY <1>1 DEF TypeInv, TypeOK, Actors, Idle
<1>3. TickInv'
  BY <1>2 DEF TickInv, Active
<1>4. /\ r.incremental /\ r.prev = offsets /\ ReadInv(r) /\ ListedInv(r) /\ LayoutInv /\ RowsInv /\ NoDoubleCount
      /\ \A m \in Minutes : r.got \cap metrics[m] \subseteq torn
      /\ r.phase = "released" => r.todo = {}
  BY <1>1 DEF CountInv, TickInv, Active
<1>5. /\ Live' = Live /\ DOMAIN files' = DOMAIN files /\ torn' = torn /\ LayoutInv' /\ Live \subseteq DOMAIN files
      /\ \A g \in DOMAIN files : Lines(g)' = Lines(g) /\ files'[g] = files[g]
  BY <1>1, <1>4, LiveFiles DEF logVars, Live, Listed, Lines, Span, LayoutInv
<1>6. ASSUME \A m \in Minutes : metrics'[m] \subseteq metrics[m], UNCHANGED offsets
      PROVE  CountInv'
  <2>1. RowsInv'
    BY <1>4, <1>5, <1>6 DEF RowsInv, Behind
  <2>2. NoDoubleCount'
    BY <1>4, <1>5, <1>6 DEF NoDoubleCount
  <2> QED
    BY <1>3, <1>5, <2>1, <2>2 DEF CountInv
<1>7. CASE RecordNothing(Tick)
  BY <1>6, <1>7 DEF RecordNothing
<1>8. CASE Record(Tick) /\ r.phase = "released"
  <2>1. ASSUME NEW m \in Minutes
        PROVE  metrics'[m] \subseteq metrics[m] \/ (m = r.ts /\ metrics'[m] \subseteq r.got)
    <3>1. Rows(Tick)[m] = IF m = r.ts THEN Pauses(r.got) ELSE {}
      BY <1>4 DEF Rows
    <3>2. metrics'[m] = IF Expired(Tick, m) THEN {} ELSE IF Rows(Tick)[m] # {} THEN Rows(Tick)[m] ELSE metrics[m]
      BY <1>8 DEF Record
    <3>3. Pauses(r.got) \subseteq r.got
      BY DEF Pauses
    <3> HIDE DEF r
    <3> QED
      BY <3>1, <3>2, <3>3
  <2>2. ASSUME NEW m \in Minutes, NEW f \in Live, NEW i \in metrics'[m] \cap Lines(f), i \notin torn
        PROVE  \E q \in Paths : Behind(offsets'[q], f, i)
    <3>1. f \in DOMAIN files /\ files[f].first \in Nat /\ f # 0
      BY LiveFiles
    <3>2. \A q \in Paths :
            offsets'[q] = IF r.new[q] # NoEntry THEN r.new[q] ELSE offsets[q]
      BY <1>8 DEF Record
    <3>3. NoEntry.ino = 0
      BY DEF NoEntry
    <3>4. CASE i \in r.got
      <4>1. PICK q \in Paths : Behind(r.new[q], f, i)
        BY <1>4, <2>2, <3>1, <3>4 DEF ReadInv
      <4>2. r.new[q] # NoEntry
        BY <3>1, <3>3, <4>1 DEF Behind
      <4> QED
        BY <3>2, <4>1, <4>2
    <3>5. CASE i \in metrics[m]
      <4>1. PICK q \in Paths : Behind(offsets[q], f, i)
        BY <1>4, <2>2, <3>5 DEF RowsInv
      <4>2. r.prev[q].ino = f
        BY <1>4, <4>1 DEF Behind
      <4>3. f \in r.seen
        BY <1>4, <1>8, <2>2, <4>2 DEF ListedInv
      <4>4. PICK o \in Paths : r.new[o].ino = f /\ r.prev[q].offset <= r.new[o].offset
        BY <1>4, <4>2, <4>3 DEF ReadInv
      <4>5. Behind(r.new[o], f, i) /\ r.new[o] # NoEntry
        <5>1. pass[Tick] \in PassRecord
          BY DEF TypeInv, TypeOK, Actors
        <5>2. r.prev[q].offset \in Nat /\ r.new[o].offset \in Nat
          BY <5>1 DEF PassRecord, Entry
        <5>3. i \in Nat
          BY <2>2, <3>1, LiveFiles
        <5>4. i <= files[f].first + r.prev[q].offset
          BY <1>4, <4>1 DEF Behind
        <5>5. i <= files[f].first + r.new[o].offset
          BY <3>1, <4>4, <5>2, <5>3, <5>4
        <5> QED
          BY <3>1, <3>3, <4>4, <5>5 DEF Behind
      <4> QED
        BY <3>2, <4>5
    <3> QED
      BY <2>1, <2>2, <3>4, <3>5
  <2>3. RowsInv'
    BY <1>5, <2>2 DEF RowsInv, Behind
  <2>4. ASSUME NEW m \in Minutes, NEW n \in Minutes, m # n
        PROVE  metrics'[m] \cap metrics'[n] \subseteq torn
    <3>1. metrics[m] \cap metrics[n] \subseteq torn
      BY <1>4, <2>4 DEF NoDoubleCount
    <3> QED
      BY <1>4, <2>1, <2>4, <3>1
  <2>5. NoDoubleCount'
    BY <1>5, <2>4 DEF NoDoubleCount
  <2> QED
    BY <1>3, <1>5, <2>3, <2>5 DEF CountInv
<1> QED
  BY <1>1, <1>7, <1>8

LEMMA NextCount ==
  ASSUME Jobs = {}, TypeInv, TypeInv', IInv, CountInv, [Next]_vars
  PROVE  CountInv'
<1>1. CASE Log
  BY <1>1, LogCount
<1>2. CASE NextMinute \/ UNCHANGED vars
  <2>1. UNCHANGED <<logVars, dbVars, pass>>
    BY <1>2 DEF NextMinute, vars, logVars, dbVars
  <2>2. TickInv'
    BY <2>1 DEF CountInv, TickInv, Active, ReadInv, ListedInv, Live, Listed, Lines, Span, Behind, logVars, dbVars
  <2> QED
    BY <2>1, <2>2, PassKeepsCounts
<1>3. CASE \E p \in Paths : ReadPath(Tick, p)
  BY <1>3, ReadCount
<1>4. CASE TickCommit \/ TickFail
  BY <1>4, CommitCount
<1>5. CASE TickLoad \/ TickStart \/ TickRelease \/ TickAbort \/ Crash
  BY <1>5, ControlCount
<1> QED
  BY <1>1, <1>2, <1>3, <1>4, <1>5 DEF Next, Work, Fault, TickStep

LEMMA InitCount == Init => CountInv
<1> SUFFICES ASSUME Init PROVE CountInv
  OBVIOUS
<1>1. DOMAIN files = {1} /\ \A m \in Minutes : metrics[m] = {}
  BY DEF Init
<1>2. pass[Tick].phase = "idle"
  BY DEF Init, Actors, Idle
<1>3. \A p \in Paths : dir[p] # 0 => p = Current
  BY DEF Init
<1> QED
  BY <1>1, <1>2, <1>3 DEF CountInv, LayoutInv, RowsInv, TickInv, NoDoubleCount, Active

\* Where only the scheduler collects and every log has an inode number of its
\* own, no pause is counted in two rows, whatever is rotated, retried or lost,
\* unless it is in a log that was renamed between a pass's listing and its
\* reading (NoDoubleCount, for all constants).
THEOREM PausesCountOnce ==
  ASSUME Jobs = {}, IdentityReuse = FALSE
  PROVE  Spec => []NoDoubleCount
<1> DEFINE Inv == TypeInv /\ IInv /\ CountInv
<1>1. Init => Inv
  BY InitTypeInv, InitCovered, InitCount
<1>2. Inv /\ [Next]_vars => Inv'
  <2> SUFFICES ASSUME Inv, [Next]_vars PROVE Inv'
    OBVIOUS
  <2>1. TypeInv'
    BY NextType
  <2> QED
    BY <2>1, NextCovered, NextCount
<1>3. Inv => NoDoubleCount
  BY DEF CountInv
<1> QED
  BY <1>1, <1>2, <1>3, PTL DEF Spec

=============================================================================

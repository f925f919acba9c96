---------------------------- MODULE PublisherProofs ----------------------------
(***************************************************************************)
(* Theorems about Publisher, for every address set and every bound on       *)
(* changes, failures and restarts.                                          *)
(***************************************************************************)
EXTENDS Publisher, FiniteSetTheorems, SequenceTheorems, TLAPS

(* Sets of addresses are finite, and any order of one is a sequence. *)
LEMMA AddrSets ==
    ASSUME NEW S \in SUBSET Addr
    PROVE  /\ Cardinality(S) \in Nat
           /\ SetToSeqs(S) \subseteq Seq(Addr)
  <1>1. Cardinality(S) \in Nat
    BY PublisherAssumption, FS_Subset, FS_CardinalityType
  <1>2. SetToSeqs(S) \subseteq [1..Cardinality(S) -> Addr]
    BY DEF SetToSeqs
  <1>3. [1..Cardinality(S) -> Addr] \subseteq Seq(Addr)
    BY <1>1, SeqDef
  <1>4. QED
    BY <1>1, <1>2, <1>3

LEMMA SizeType ==
    ASSUME NEW x \in Index
    PROVE  Size(x) \in Nat
  BY AddrSets, LenProperties DEF Size, Index

(* A fresh index, and the server installed over it, are well-formed. *)
LEMMA InstallType ==
    ASSUME NEW v \in Nat, NEW map \in [Addr -> Record], builds \in Nat, Install(v, map)
    PROVE  /\ builds' = builds + 1 /\ builds' \in Nat
           /\ index' \in Index /\ index'.id = builds + 1
           /\ served' \in Served
           /\ rows' \in [Addr -> Record] /\ current' \in [Addr -> Record]
           /\ lenAtCompaction' \in Nat /\ rebuilt' \in BOOLEAN
           /\ pc' = "keys"
  <1>1. builds' = builds + 1 /\ builds' \in Nat
    BY DEF Install
  <1>2. Held(map) \in SUBSET Addr
    BY DEF Held
  <1>3. <<>> \in Seq(Addr)
    OBVIOUS
  <1>4. index' \in Index /\ index'.id = builds + 1
    BY <1>1, <1>2, <1>3 DEF Install, Index
  <1>5. served' \in Served
    BY <1>1, <1>2, <1>3 DEF Install, Served
  <1>6. lenAtCompaction' \in Nat
    BY <1>2, AddrSets DEF Install
  <1>7. QED
    BY <1>1, <1>4, <1>5, <1>6 DEF Install

LEMMA Constants ==
    /\ 0 \in Record
    /\ NoRecord \in [Addr -> Record]
    /\ EmptyIndex \in Index
    /\ EmptyDatabase \in Served
    /\ [id |-> Missing, version |-> 0, base |-> {}] \in KeysFile
  <1>1. 0 \in Record
    BY PublisherAssumption DEF Record
  <1>2. <<>> \in Seq(Addr) /\ {} \in SUBSET Addr
    OBVIOUS
  <1>3. NoRecord \in [Addr -> Record]
    BY <1>1 DEF NoRecord
  <1>4. EmptyIndex \in Index
    BY <1>2 DEF EmptyIndex, Index, Missing
  <1>5. EmptyDatabase \in Served
    BY <1>2, <1>3 DEF EmptyDatabase, Served, Missing
  <1>6. QED
    BY <1>1, <1>3, <1>4, <1>5 DEF KeysFile, Missing

-------------------------------------------------------------------------------
(* Types. *)

LEMMA RestoreType ==
    ASSUME TypeOK, Restore
    PROVE  TypeOK'
  <1>1. Held(holders) \ (keysFile.base \cup InTail(indexFile)) \in SUBSET Addr
    BY DEF Held
  <1>2. PICK added \in SetToSeqs(Held(holders) \ (keysFile.base \cup InTail(indexFile))) :
          index' = [indexFile EXCEPT !.tail = @ \o added]
    BY DEF Restore
  <1>3. added \in Seq(Addr)
    BY <1>1, <1>2, AddrSets
  <1>4. indexFile.tail \o added \in Seq(Addr)
    <2>1. indexFile.tail \in Seq(Addr)
      BY DEF TypeOK, Index
    <2>2. QED
      BY <1>3, <2>1, ConcatProperties
  <1>5. index' = [id |-> indexFile.id, version |-> indexFile.version,
                  base |-> indexFile.base, tail |-> indexFile.tail \o added]
    BY <1>2 DEF TypeOK, Index
  <1>6. index' \in Index
    BY <1>4, <1>5 DEF TypeOK, Index
  <1>7. served' \in Served
    BY <1>4, <1>5 DEF Restore, TypeOK, KeysFile, Served
  <1>8. Size(index') \in Nat
    BY <1>6, SizeType
  <1>9. lenAtCompaction' \in Nat
    BY <1>8 DEF Restore
  <1>10. QED
    BY <1>6, <1>7, <1>9 DEF Restore, TypeOK, files, history, budget

LEMMA AbsorbType ==
    ASSUME TypeOK, Absorb
    PROVE  TypeOK'
  <1> DEFINE update == Head(queue)
  <1>1. /\ update \in [addr : Addr, record : Record]
        /\ queue' \in Seq([addr : Addr, record : Record])
    BY HeadTailProperties DEF TypeOK, Absorb
  <1> HIDE DEF update
  <1>2. update.addr \in Addr /\ update.record \in Record
    BY <1>1
  <1>3. Append(index.tail, update.addr) \in Seq(Addr)
    <2>1. index.tail \in Seq(Addr)
      BY DEF TypeOK, Index
    <2>2. QED
      BY <1>2, <2>1, AppendProperties
  <1>4. \/ index' = index
        \/ index' = [id |-> index.id, version |-> index.version, base |-> index.base,
                     tail |-> Append(index.tail, update.addr)]
    BY DEF Absorb, TypeOK, Index, update
  <1>5. index' \in Index
    <2>1. index \in Index
      BY DEF TypeOK
    <2>2. CASE index' = index
      BY <2>1, <2>2
    <2>3. CASE index' # index
      <3>1. index' = [id |-> index.id, version |-> index.version, base |-> index.base,
                      tail |-> Append(index.tail, update.addr)]
        BY <1>4, <2>3
      <3>2. QED
        BY <1>3, <2>1, <3>1 DEF Index
    <2>4. QED
      BY <2>2, <2>3
  <1>6. rows' \in [Addr -> Record] /\ current' \in [Addr -> Record]
    BY <1>2 DEF Absorb, TypeOK, update
  <1>7. rejected' \in SUBSET Addr
    BY DEF Absorb, TypeOK
  <1>8. QED
    BY <1>1, <1>5, <1>6, <1>7 DEF Absorb, TypeOK, files, budget

LEMMA ChangeType ==
    ASSUME TypeOK, Change
    PROVE  TypeOK'
  <1>1. PICK a \in Addr, r \in Record :
          /\ holders' = [holders EXCEPT ![a] = r]
          /\ queue' = IF serving THEN Append(queue, [addr |-> a, record |-> r]) ELSE queue
    BY DEF Change
  <1>2. holders' \in [Addr -> Record]
    BY <1>1 DEF TypeOK
  <1>3. queue' \in Seq([addr : Addr, record : Record])
    <2>1. [addr |-> a, record |-> r] \in [addr : Addr, record : Record]
      OBVIOUS
    <2>2. QED
      BY <1>1, <2>1, AppendProperties DEF TypeOK
  <1>4. changes' \in Nat
    BY DEF Change, TypeOK
  <1>5. QED
    BY <1>2, <1>3, <1>4 DEF Change, TypeOK, thread, files, history

LEMMA TypeStep ==
    ASSUME TypeOK, [Next]_vars
    PROVE  TypeOK'
  <1>1. CASE Restore
    BY <1>1, RestoreType
  <1>2. CASE RefuseStart \/ UNCHANGED vars
    BY <1>2 DEF RefuseStart, TypeOK, vars, thread, files, history, budget
  <1>3. CASE InitServer
    <2>1. Install(0, holders) /\ inits' \in Nat
      BY <1>3 DEF InitServer, TypeOK
    <2>2. QED
      BY <1>3, <2>1, InstallType DEF InitServer, TypeOK, files, budget
  <1>4. CASE WriteKeys
    <2>1. keysFile' \in KeysFile
      BY <1>4 DEF WriteKeys, TypeOK, Index, KeysFile
    <2>2. QED
      BY <1>4, <2>1 DEF WriteKeys, TypeOK, thread, history, budget
  <1>5. CASE WriteIndex
    BY <1>5 DEF WriteIndex, TypeOK, thread, history, budget
  <1>6. CASE Persist
    BY <1>6 DEF Persist, TypeOK, thread, history, budget
  <1>7. CASE Expose
    BY <1>7 DEF Expose, TypeOK, thread, files, budget
  <1>8. CASE Absorb
    BY <1>8, AbsorbType
  <1>9. CASE Rebuild
    <2>1. served' = [id |-> served.id, base |-> served.base, tail |-> index.tail, rows |-> rows]
      BY <1>9 DEF Rebuild, TypeOK, Served
    <2>2. served' \in Served
      BY <2>1 DEF TypeOK, Served, Index
    <2>3. QED
      BY <1>9, <2>2 DEF Rebuild, TypeOK, files, history, budget
  <1>10. CASE Compact
    <2>1. Install(index.version + 1, current) /\ index.version + 1 \in Nat
      BY <1>10 DEF Compact, TypeOK, Index
    <2>2. QED
      BY <1>10, <2>1, InstallType DEF Compact, TypeOK, files, budget
  <1>11. CASE SkipCompact
    BY <1>11 DEF SkipCompact, TypeOK, thread, files, history, budget
  <1>12. CASE CheckpointFails \/ CompactFails
    BY <1>12 DEF CheckpointFails, CompactFails, TypeOK, thread, files, history
  <1>13. CASE PublishFails
    BY <1>13 DEF PublishFails, TypeOK, thread, files, history
  <1>14. CASE Reject
    <2>1. Head(queue) \in [addr : Addr, record : Record]
      BY <1>14, HeadTailProperties DEF Reject, TypeOK
    <2>2. queue' \in Seq([addr : Addr, record : Record])
      BY <1>14, HeadTailProperties DEF Reject, TypeOK
    <2>3. rejected' \in SUBSET Addr
      <3>1. Head(queue).addr \in Addr
        BY <2>1
      <3>2. QED
        BY <1>14, <3>1 DEF Reject, TypeOK
    <2>4. QED
      BY <1>14, <2>2, <2>3 DEF Reject, TypeOK, thread, files
  <1>15. CASE Change
    BY <1>15, ChangeType
  <1>16. CASE Crash
    <2>1. queue' \in Seq([addr : Addr, record : Record]) /\ crashes' \in Nat
      BY <1>16 DEF Crash, TypeOK
    <2>2. QED
      BY <1>16, <2>1, Constants DEF Crash, TypeOK, files
  <1>17. CASE RebuildFails
    <2>1. faults' \in Nat /\ pc' = "decide"
      BY <1>17 DEF RebuildFails, TypeOK
    <2>2. rebuilt' \in BOOLEAN
      <3>1. rebuilt' = FALSE
        BY <1>17 DEF RebuildFails
      <3>2. QED
        BY <3>1, Zenon
    <2>3. QED
      BY <1>17, <2>1, <2>2 DEF RebuildFails, TypeOK, thread, files
  <1>18. QED
    BY <1>1, <1>2, <1>3, <1>4, <1>5, <1>6, <1>7, <1>8, <1>9, <1>10, <1>11, <1>12, <1>13,
       <1>14, <1>15, <1>16, <1>17 DEF Next, Worker, Fault

LEMMA InitType == Init => TypeOK
  <1>1. <<>> \in Seq([addr : Addr, record : Record])
    OBVIOUS
  <1>2. QED
    BY <1>1, Constants, 0 \in Nat DEF Init, TypeOK

(* Every variable of the PIR thread and of its files keeps its type.        *)
THEOREM PublisherTypeOK == Spec => []TypeOK
  <1>1. TypeOK /\ [Next]_vars => TypeOK'
    BY TypeStep
  <1>2. QED
    BY <1>1, InitType, PTL DEF Spec

-------------------------------------------------------------------------------
(* Slots. *)

(* What is exposed is on disk, the live index starts from the disk and only *)
(* appends, and a new hash is a number of its own.                          *)
Numbered ==
    /\ indexFile.id <= builds /\ index.id <= builds
    /\ \A e \in exposed : e.id <= builds

SlotInv ==
    /\ TypeOK /\ Numbered
    /\ \A e \in exposed : Continues(indexFile, e)
    /\ pc # "down" => \A e \in exposed : Continues(index, e)
    /\ pc = "expose" => indexFile = index

LEMMA PrefixRefl ==
    ASSUME NEW s \in Seq(Addr)
    PROVE  IsPrefix(s, s)
  BY LenProperties DEF IsPrefix

(* Appending to a tail keeps what it is a continuation of.                  *)
LEMMA PrefixConcat ==
    ASSUME NEW s \in Seq(Addr), NEW t \in Seq(Addr), NEW u \in Seq(Addr), IsPrefix(s, t)
    PROVE  IsPrefix(s, t \o u)
  <1> DEFINE n == Len(s)
  <1>1. n \in Nat /\ n <= Len(t) /\ SubSeq(s, 1, n) = SubSeq(t, 1, n)
    BY LenProperties DEF IsPrefix
  <1>2. /\ t \o u \in Seq(Addr) /\ Len(t \o u) = Len(t) + Len(u)
        /\ \A i \in 1..Len(t) : (t \o u)[i] = t[i]
    BY ConcatProperties, LenProperties
  <1>3. Len(t) \in Nat /\ Len(u) \in Nat
    BY LenProperties
  <1>4. n <= Len(t \o u)
    BY <1>1, <1>2, <1>3
  <1>5. \A i \in 1..n : t[i] \in Addr /\ (t \o u)[i] \in Addr /\ (t \o u)[i] = t[i]
    BY <1>1, <1>2, <1>3, ElementOfSeq
  <1> HIDE DEF n
  <1>6. /\ SubSeq(t, 1, n) \in Seq(Addr)
        /\ Len(SubSeq(t, 1, n)) = n
        /\ \A i \in 1..n : SubSeq(t, 1, n)[i] = t[i]
    BY <1>1, <1>5, SubSeqProperties
  <1>7. /\ SubSeq(t \o u, 1, n) \in Seq(Addr)
        /\ Len(SubSeq(t \o u, 1, n)) = n
        /\ \A i \in 1..n : SubSeq(t \o u, 1, n)[i] = (t \o u)[i]
    BY <1>1, <1>5, SubSeqProperties
  <1>8. SubSeq(t \o u, 1, n) = SubSeq(t, 1, n)
    BY <1>5, <1>6, <1>7, SeqEqual
  <1>9. QED
    BY <1>1, <1>4, <1>8 DEF IsPrefix, n

(* So an index that only appended continues what the old one continued.     *)
LEMMA GrowthContinues ==
    ASSUME NEW x \in Index, NEW y \in Index, NEW e \in Index, NEW added \in Seq(Addr),
           y.id = x.id, y.base = x.base, y.tail = x.tail \o added,
           Continues(x, e)
    PROVE  Continues(y, e)
  <1>1. e.tail \in Seq(Addr) /\ x.tail \in Seq(Addr)
    BY DEF Index
  <1>2. QED
    BY <1>1, PrefixConcat DEF Continues

(* The live index after a step that absorbs or restores.                    *)
LEMMA RestoreGrows ==
    ASSUME TypeOK, Restore
    PROVE  /\ index' \in Index
           /\ \E added \in Seq(Addr) :
                 /\ index'.id = indexFile.id /\ index'.base = indexFile.base
                 /\ index'.version = indexFile.version
                 /\ index'.tail = indexFile.tail \o added
  <1>1. index' \in Index
    BY RestoreType DEF TypeOK
  <1>2. Held(holders) \ (keysFile.base \cup InTail(indexFile)) \in SUBSET Addr
    BY DEF Held
  <1>3. PICK added \in SetToSeqs(Held(holders) \ (keysFile.base \cup InTail(indexFile))) :
          index' = [indexFile EXCEPT !.tail = @ \o added]
    BY DEF Restore
  <1>4. added \in Seq(Addr)
    BY <1>2, <1>3, AddrSets
  <1>5. QED
    BY <1>1, <1>3, <1>4 DEF TypeOK, Index

LEMMA AbsorbGrows ==
    ASSUME TypeOK, Absorb
    PROVE  /\ index' \in Index
           /\ \E added \in Seq(Addr) :
                 /\ index'.id = index.id /\ index'.base = index.base
                 /\ index'.version = index.version
                 /\ index'.tail = index.tail \o added
  <1>1. index' \in Index
    BY AbsorbType DEF TypeOK
  <1>2. Head(queue) \in [addr : Addr, record : Record]
    BY HeadTailProperties DEF TypeOK, Absorb
  <1>3. index.tail \in Seq(Addr) /\ Head(queue).addr \in Addr
    BY <1>2 DEF TypeOK, Index
  <1>4. CASE index' = index
    <2>1. index.tail = index.tail \o <<>>
      BY <1>3, ConcatEmptySeq
    <2>2. <<>> \in Seq(Addr)
      OBVIOUS
    <2>3. QED
      BY <1>1, <1>4, <2>1, <2>2
  <1>5. CASE index' # index
    <2>1. index' = [index EXCEPT !.tail = Append(@, Head(queue).addr)]
      BY <1>5 DEF Absorb
    <2>2. Append(index.tail, Head(queue).addr) = index.tail \o <<Head(queue).addr>>
      BY <1>3, AppendIsConcat
    <2>3. <<Head(queue).addr>> \in Seq(Addr)
      BY <1>3
    <2>4. QED
      BY <1>1, <2>1, <2>2, <2>3 DEF TypeOK, Index
  <1>6. QED
    BY <1>4, <1>5

(* Steps that neither build, write .index, expose nor move the live index.  *)
Quiet ==
    /\ UNCHANGED <<index, indexFile, exposed, builds>>
    /\ pc # "down"
    /\ pc' = "expose" => pc = "expose"

LEMMA QuietKeepsSlots ==
    ASSUME SlotInv, TypeOK', Quiet
    PROVE  SlotInv'
  BY DEF SlotInv, Numbered, Continues, Quiet

(* A fresh index continues every exposed directory for want of a common     *)
(* hash.                                                                    *)
LEMMA InstallKeepsSlots ==
    ASSUME SlotInv, TypeOK', NEW v \in Nat, NEW map \in [Addr -> Record], Install(v, map),
           UNCHANGED <<indexFile, exposed>>
    PROVE  SlotInv'
  <1>1. builds \in Nat /\ indexFile.id \in Nat /\ index.id \in Nat
    BY DEF SlotInv, TypeOK, Index
  <1>2. builds' = builds + 1 /\ index'.id = builds + 1 /\ pc' = "keys"
    BY <1>1, InstallType
  <1>3. \A e \in exposed : e.id \in Nat /\ e.id <= builds
    BY DEF SlotInv, Numbered, TypeOK, Index
  <1>4. \A e \in exposed : index'.id # e.id /\ e.id <= builds'
    BY <1>1, <1>2, <1>3
  <1>5. indexFile.id <= builds' /\ index'.id <= builds'
    BY <1>1, <1>2 DEF SlotInv, Numbered
  <1>6. \A e \in exposed : Continues(index', e)
    BY <1>4 DEF Continues
  <1>7. QED
    BY <1>2, <1>4, <1>5, <1>6 DEF SlotInv, Numbered

LEMMA SlotStep ==
    ASSUME SlotInv, [Next]_vars
    PROVE  SlotInv'
  <1>1. TypeOK /\ TypeOK'
    BY TypeStep DEF SlotInv
  <1>2. CASE Restore
    <2>1. PICK added \in Seq(Addr) :
            /\ index'.id = indexFile.id /\ index'.base = indexFile.base
            /\ index'.tail = indexFile.tail \o added
      BY <1>1, <1>2, RestoreGrows
    <2>2. index' \in Index /\ indexFile \in Index /\ exposed \subseteq Index
      BY <1>1 DEF TypeOK
    <2>3. \A e \in exposed : Continues(index', e)
      BY <2>1, <2>2, GrowthContinues DEF SlotInv
    <2>4. /\ indexFile' = indexFile /\ exposed' = exposed /\ builds' = builds
          /\ pc' = "persist"
      BY <1>2 DEF Restore, files, history
    <2>5. QED
      BY <1>1, <2>1, <2>3, <2>4 DEF SlotInv, Numbered
  <1>3. CASE RefuseStart \/ UNCHANGED vars
    BY <1>1, <1>3 DEF RefuseStart, SlotInv, Numbered, Continues, vars, thread, files, history
  <1>4. CASE InitServer
    BY <1>1, <1>4, InstallKeepsSlots DEF InitServer, TypeOK, files
  <1>5. CASE Compact
    <2>1. index.version + 1 \in Nat
      <3>1. index \in Index
        BY <1>1 DEF TypeOK
      <3>2. index.version \in Nat
        BY <3>1 DEF Index
      <3>3. QED
        BY <3>2
    <2>2. QED
      BY <1>1, <1>5, <2>1, InstallKeepsSlots DEF Compact, TypeOK, files
  <1>6. CASE WriteIndex \/ Persist
    <2>1. /\ indexFile' = index /\ UNCHANGED <<index, exposed, builds>>
          /\ pc # "down"
      BY <1>6 DEF WriteIndex, Persist, thread, history
    <2>2. QED
      BY <1>1, <2>1 DEF SlotInv, Numbered, Continues
  <1>7. CASE Expose
    <2>1. /\ pc = "expose" /\ pc' = "wait" /\ exposed' = exposed \cup {index}
          /\ UNCHANGED <<index, indexFile, builds>>
      BY <1>7 DEF Expose, thread, files
    <2>2. indexFile = index /\ index \in Index
      BY <1>1, <2>1 DEF SlotInv, TypeOK
    <2>3. Continues(index, index)
      BY <2>2, PrefixRefl DEF Continues, Index
    <2>4. \A e \in exposed' : Continues(index, e) /\ e.id <= builds
      BY <2>1, <2>2, <2>3 DEF SlotInv, Numbered
    <2>5. QED
      BY <1>1, <2>1, <2>2, <2>4 DEF SlotInv, Numbered, Continues
  <1>8. CASE Absorb
    <2>1. PICK added \in Seq(Addr) :
            /\ index'.id = index.id /\ index'.base = index.base
            /\ index'.tail = index.tail \o added
      BY <1>1, <1>8, AbsorbGrows
    <2>2. index' \in Index /\ index \in Index /\ exposed \subseteq Index
      BY <1>1 DEF TypeOK
    <2>3. /\ indexFile' = indexFile /\ exposed' = exposed /\ builds' = builds
          /\ pc = "wait" /\ pc' = pc
      BY <1>8 DEF Absorb, files
    <2>4. \A e \in exposed : Continues(index', e)
      BY <2>1, <2>2, <2>3, GrowthContinues DEF SlotInv
    <2>5. QED
      BY <1>1, <2>1, <2>3, <2>4 DEF SlotInv, Numbered
  <1>9. CASE WriteKeys \/ Rebuild \/ SkipCompact \/ CheckpointFails \/ PublishFails
             \/ Reject \/ RebuildFails \/ CompactFails
    <2>1. Quiet
      BY <1>9 DEF Quiet, WriteKeys, Rebuild, SkipCompact, CheckpointFails, PublishFails,
                  Reject, RebuildFails, CompactFails, thread, files, history
    <2>2. QED
      BY <1>1, <2>1, QuietKeepsSlots
  <1>10. CASE Change
    <2>1. UNCHANGED <<index, indexFile, exposed, builds, pc>>
      BY <1>10 DEF Change, thread, files, history
    <2>2. QED
      BY <1>1, <2>1 DEF SlotInv, Numbered, Continues
  <1>11. CASE Crash
    <2>1. /\ pc' = "down" /\ index' = EmptyIndex
          /\ UNCHANGED <<indexFile, exposed, builds>>
      BY <1>11 DEF Crash, files
    <2>2. index'.id <= builds
      BY <1>1, <2>1 DEF EmptyIndex, Missing, TypeOK
    <2>3. QED
      BY <1>1, <2>1, <2>2 DEF SlotInv, Numbered, Continues
  <1>12. QED
    BY <1>2, <1>3, <1>4, <1>5, <1>6, <1>7, <1>8, <1>9, <1>10, <1>11
    DEF Next, Worker, Fault

LEMMA SlotInit == Init => SlotInv
  <1> SUFFICES ASSUME Init PROVE SlotInv
    OBVIOUS
  <1>1. TypeOK
    BY InitType
  <1>2. exposed = {} /\ pc = "down" /\ indexFile.id = 0 /\ index.id = 0 /\ builds = 0
    BY DEF Init, EmptyIndex, Missing
  <1>3. QED
    BY <1>1, <1>2 DEF SlotInv, Numbered

(* An exposed slot is never given to another address: neither the live      *)
(* index nor the one a restart would read moves it, whatever writes failed  *)
(* and whenever the process died.                                           *)
THEOREM PublisherSlotsAreStable == Spec => []SlotsAreStable
  <1>1. SlotInv /\ [Next]_vars => SlotInv'
    BY SlotStep
  <1>2. SlotInv => SlotsAreStable
    BY DEF SlotInv, SlotsAreStable
  <1>3. QED
    BY SlotInit, <1>1, <1>2, PTL DEF Spec

-------------------------------------------------------------------------------
(* Versions. *)

(* x is of an earlier version than y, or of the same hash.                  *)
Before(x, y) ==
    /\ x.version <= y.version
    /\ x.version = y.version => x.id = y.id /\ x.base = y.base

(* Since the first start nothing is newer than the live index, no exposed   *)
(* directory is newer than the .index file, and the two files are of one    *)
(* hash if they are of one version.                                         *)
NothingYet ==
    pc = "down" /\ indexFile.id = Missing /\ keysFile.id = Missing /\ exposed = {}

Ordered ==
    /\ \A x \in exposed : indexFile.id # Missing /\ Before(x, indexFile)
    /\ \A x, y \in exposed : SameHash(x, y)
    /\ pc # "down" =>
          /\ index.id # Missing
          /\ indexFile.id # Missing => Before(indexFile, index)
          /\ keysFile.id # Missing => Before(keysFile, index)
    /\ Restorable => keysFile.id = indexFile.id /\ keysFile.base = indexFile.base

VersionInv ==
    /\ inits = 0 => NothingYet
    /\ inits <= 1 => Ordered

FullInv == SlotInv /\ VersionInv

LEMMA BeforeTrans ==
    ASSUME NEW x \in Index, NEW y \in Index, NEW z \in Index, Before(x, y), Before(y, z)
    PROVE  Before(x, z)
  BY DEF Before, Index

(* The live index moves on without a new hash, and no file does.            *)
LEMMA OrderedGrowth ==
    ASSUME Ordered, TypeOK, TypeOK', pc # "down",
           index'.id = index.id, index'.version = index.version, index'.base = index.base,
           UNCHANGED <<indexFile, keysFile, exposed>>
    PROVE  Ordered'
  BY DEF Ordered, Before, SameHash, Restorable

(* A fresh hash of the next version is after everything there is.           *)
LEMMA OrderedCompact ==
    ASSUME Ordered, TypeOK, TypeOK', Install(index.version + 1, current), pc # "down",
           UNCHANGED <<indexFile, keysFile, exposed>>
    PROVE  Ordered'
  <1>1. /\ builds \in Nat /\ index.version \in Nat
        /\ indexFile.version \in Nat /\ keysFile.version \in Nat
    BY DEF TypeOK, Index, KeysFile
  <1>2. index'.version = index.version + 1 /\ index'.id = builds + 1
    BY DEF Install
  <1>3. index'.id # Missing
    BY <1>1, <1>2 DEF Missing
  <1>4. indexFile.id # Missing => Before(indexFile, index')
    BY <1>1, <1>2 DEF Ordered, Before
  <1>5. keysFile.id # Missing => Before(keysFile, index')
    BY <1>1, <1>2 DEF Ordered, Before
  <1>6. QED
    BY <1>3, <1>4, <1>5 DEF Ordered, SameHash, Before, Restorable

LEMMA OrderedStep ==
    ASSUME SlotInv, VersionInv, [Next]_vars, inits' <= 1
    PROVE  Ordered'
  <1>1. TypeOK /\ TypeOK'
    BY TypeStep DEF SlotInv
  <1>2. inits \in Nat /\ (inits' = inits \/ inits' = inits + 1)
    BY <1>1 DEF TypeOK, Next, Worker, Fault, vars, Restore, RefuseStart, InitServer, WriteKeys,
                WriteIndex, CheckpointFails, Persist, PublishFails, Expose, Absorb, Reject,
                Rebuild, RebuildFails, Compact, SkipCompact, CompactFails, Change, Crash,
                history
  <1>3. inits <= 1 /\ Ordered
    BY <1>2 DEF VersionInv
  <1>4. CASE Restore
    <2>1. /\ index'.id = indexFile.id /\ index'.base = indexFile.base
          /\ index'.version = indexFile.version
      BY <1>1, <1>4, RestoreGrows
    <2>2. /\ indexFile' = indexFile /\ keysFile' = keysFile /\ exposed' = exposed
          /\ Restorable
      BY <1>4 DEF Restore, files, history
    <2>3. indexFile.version \in Nat
      BY <1>1 DEF TypeOK, Index
    <2>4. Before(indexFile, index') /\ Before(keysFile, index') /\ index'.id # Missing
      BY <1>3, <2>1, <2>2, <2>3 DEF Ordered, Before, Restorable
    <2>5. QED
      BY <1>3, <2>2, <2>4 DEF Ordered, Before, SameHash, Restorable
  <1>5. CASE RefuseStart \/ UNCHANGED vars
    BY <1>3, <1>5 DEF RefuseStart, Ordered, Before, SameHash, Restorable, vars, thread, files,
                      history
  <1>6. CASE InitServer
    <2>1. inits = 0 /\ NothingYet
      BY <1>2, <1>6 DEF InitServer, VersionInv
    <2>2. index'.id = builds + 1
      BY <1>6 DEF InitServer, Install
    <2>3. index'.id # Missing
      BY <1>1, <2>2 DEF Missing, TypeOK
    <2>4. UNCHANGED <<indexFile, keysFile, exposed>>
      BY <1>6 DEF InitServer, files
    <2>5. QED
      BY <2>1, <2>3, <2>4 DEF NothingYet, Ordered, Restorable
  <1>7. CASE Compact
    BY <1>1, <1>3, <1>7, OrderedCompact DEF Compact, files
  <1>8. CASE WriteKeys
    <2>1. /\ pc # "down"
          /\ keysFile' = [id |-> index.id, version |-> index.version, base |-> index.base]
          /\ UNCHANGED <<index, indexFile, exposed>>
      BY <1>8 DEF WriteKeys, thread, history
    <2>2. index.version \in Nat
      BY <1>1 DEF TypeOK, Index
    <2>3. Before(keysFile', index)
      BY <2>1, <2>2 DEF Before
    <2>4. Restorable' => keysFile'.id = indexFile.id /\ keysFile'.base = indexFile.base
      BY <1>3, <2>1 DEF Ordered, Before, Restorable
    <2>5. QED
      BY <1>3, <2>1, <2>3, <2>4 DEF Ordered, Before, SameHash
  <1>9. CASE WriteIndex \/ Persist
    <2>1. /\ pc # "down" /\ indexFile' = index
          /\ UNCHANGED <<index, keysFile, exposed>>
      BY <1>9 DEF WriteIndex, Persist, thread, history
    <2>2. index \in Index /\ indexFile \in Index /\ exposed \subseteq Index
      BY <1>1 DEF TypeOK
    <2>3. Before(index, index)
      BY <2>2 DEF Before, Index
    <2>4. index.id # Missing /\ \A x \in exposed : Before(x, index)
      BY <1>3, <2>1, <2>2, BeforeTrans DEF Ordered
    <2>5. Restorable' => keysFile.id = index.id /\ keysFile.base = index.base
      BY <1>3, <2>1 DEF Ordered, Before, Restorable
    <2>6. QED
      BY <1>3, <2>1, <2>3, <2>4, <2>5 DEF Ordered
  <1>10. CASE Expose
    <2>1. /\ pc = "expose" /\ exposed' = exposed \cup {index}
          /\ UNCHANGED <<index, indexFile, keysFile>>
      BY <1>10 DEF Expose, thread, files
    <2>2. indexFile = index /\ index \in Index
      BY <1>1, <2>1 DEF SlotInv, TypeOK
    <2>3. index.id # Missing /\ Before(index, index)
      BY <1>3, <2>1, <2>2 DEF Ordered, Before, Index
    <2>4. \A x \in exposed' : Before(x, indexFile)
      BY <1>3, <2>1, <2>2, <2>3 DEF Ordered
    <2>5. \A x, y \in exposed' : SameHash(x, y)
      BY <1>3, <2>1, <2>2 DEF Ordered, Before, SameHash
    <2>6. QED
      BY <1>3, <2>1, <2>2, <2>3, <2>4, <2>5 DEF Ordered, Restorable
  <1>11. CASE Absorb
    <2>1. /\ index'.id = index.id /\ index'.base = index.base
          /\ index'.version = index.version
      BY <1>1, <1>11, AbsorbGrows
    <2>2. pc # "down" /\ UNCHANGED <<indexFile, keysFile, exposed>>
      BY <1>11 DEF Absorb, files
    <2>3. QED
      BY <1>1, <1>3, <2>1, <2>2, OrderedGrowth
  <1>12. CASE Rebuild \/ SkipCompact \/ CheckpointFails \/ PublishFails
              \/ Reject \/ RebuildFails \/ CompactFails
    <2>1. pc # "down" /\ UNCHANGED <<index, indexFile, keysFile, exposed>>
      BY <1>12 DEF Rebuild, SkipCompact, CheckpointFails, PublishFails,
                   Reject, RebuildFails, CompactFails, thread, files, history
    <2>2. QED
      BY <1>1, <1>3, <2>1, OrderedGrowth
  <1>13. CASE Change
    <2>1. UNCHANGED <<index, indexFile, keysFile, exposed, pc>>
      BY <1>13 DEF Change, thread, files, history
    <2>2. QED
      BY <1>3, <2>1 DEF Ordered, Before, SameHash, Restorable
  <1>14. CASE Crash
    <2>1. pc' = "down" /\ UNCHANGED <<indexFile, keysFile, exposed>>
      BY <1>14 DEF Crash, files
    <2>2. QED
      BY <1>3, <2>1 DEF Ordered, Before, SameHash, Restorable
  <1>15. QED
    BY <1>4, <1>5, <1>6, <1>7, <1>8, <1>9, <1>10, <1>11, <1>12, <1>13, <1>14
    DEF Next, Worker, Fault

(* Before the first start there is nothing to be in order.                  *)
LEMMA NothingYetStep ==
    ASSUME SlotInv, VersionInv, [Next]_vars, inits' = 0
    PROVE  NothingYet'
  <1>1. inits \in Nat /\ (inits' = inits \/ inits' = inits + 1)
    BY DEF SlotInv, TypeOK, Next, Worker, Fault, vars, Restore, RefuseStart, InitServer,
           WriteKeys, WriteIndex, CheckpointFails, Persist, PublishFails, Expose, Absorb,
           Reject, Rebuild, RebuildFails, Compact, SkipCompact, CompactFails, Change, Crash,
           history
  <1>2. inits = 0 /\ NothingYet
    BY <1>1 DEF VersionInv
  <1>3. ~Restorable
    BY <1>2 DEF NothingYet, Restorable
  <1>4. ~InitServer
    BY <1>1, <1>2 DEF InitServer
  <1>5. Change \/ UNCHANGED vars
    BY <1>2, <1>3, <1>4
    DEF NothingYet, Next, Worker, Fault, Restore, RefuseStart, WriteKeys, WriteIndex,
        CheckpointFails, Persist, PublishFails, Expose, Absorb, Reject, Rebuild, RebuildFails,
        Compact, SkipCompact, CompactFails, Crash
  <1>6. QED
    BY <1>2, <1>5 DEF NothingYet, Change, vars, thread, files, history

(* Until a second fresh start, the version tells the hashes apart: for a    *)
(* client that compares it with its copy's, and for the loader of the two   *)
(* files.                                                                   *)
THEOREM PublisherVersionNamesHash == Spec => []VersionNamesHash
  <1>1. Init => FullInv
    <2>1. Init => VersionInv
      BY DEF Init, VersionInv, NothingYet, Ordered, Restorable, EmptyIndex, Missing
    <2>2. QED
      BY <2>1, SlotInit DEF FullInv
  <1>2. FullInv /\ [Next]_vars => FullInv'
    BY SlotStep, OrderedStep, NothingYetStep DEF FullInv, VersionInv
  <1>3. FullInv => VersionNamesHash
    <2> SUFFICES ASSUME FullInv, inits <= 1
                 PROVE  /\ \A x \in exposed, y \in exposed \cup {indexFile} : SameHash(x, y)
                        /\ pc # "down" => \A x \in exposed : SameHash(x, index)
                        /\ Restorable => /\ keysFile.id = indexFile.id
                                         /\ keysFile.base = indexFile.base
      BY DEF VersionNamesHash
    <2>1. Ordered
      BY DEF FullInv, VersionInv
    <2>2. exposed \subseteq Index /\ indexFile \in Index /\ index \in Index
      BY DEF FullInv, SlotInv, TypeOK
    <2>3. \A x \in exposed, y \in exposed \cup {indexFile} : SameHash(x, y)
      BY <2>1 DEF Ordered, SameHash, Before
    <2>4. ASSUME pc # "down", NEW x \in exposed
          PROVE  SameHash(x, index)
      <3>1. Before(x, index)
        BY <2>1, <2>2, <2>4, BeforeTrans DEF Ordered
      <3>2. QED
        BY <3>1 DEF Before, SameHash
    <2>5. QED
      BY <2>1, <2>3, <2>4 DEF Ordered
  <1>4. QED
    BY <1>1, <1>2, <1>3, PTL DEF Spec

-------------------------------------------------------------------------------
(* Rebuilds. *)

(* From the rebuild until its index is exposed the served tail is the live  *)
(* one; what is exposed of its hash starts both.                            *)
Settled == {"keys", "index", "persist", "expose", "decide"}

RebuiltInv ==
    /\ TypeOK
    /\ directory.id <= builds
    /\ pc = "down" => directory = EmptyIndex /\ served = EmptyDatabase
    /\ pc # "down" /\ directory.id = served.id => IsPrefix(directory.tail, index.tail)
    /\ rebuilt => /\ pc \in Settled => served.tail = index.tail
                  /\ ExposedIsBuilt

(* A start, or a compaction: a hash that is not the directory's.            *)
LEMMA FreshRebuilt ==
    ASSUME RebuiltInv, TypeOK', directory' = directory, builds <= builds',
           directory.id # served'.id, served'.tail = index'.tail, pc' # "down"
    PROVE  RebuiltInv'
  <1>1. directory.id \in Nat /\ builds \in Nat /\ builds' \in Nat
    BY DEF RebuiltInv, TypeOK, Index
  <1>2. directory'.id <= builds'
    BY <1>1 DEF RebuiltInv
  <1>3. QED
    BY <1>2 DEF RebuiltInv, ExposedIsBuilt

(* Steps that move none of the three.                                       *)
LEMMA StillRebuilt ==
    ASSUME RebuiltInv, TypeOK', UNCHANGED <<index, served, directory, builds>>,
           rebuilt' => rebuilt /\ (pc' \in Settled => pc \in Settled),
           pc' = "down" <=> pc = "down"
    PROVE  RebuiltInv'
  BY DEF RebuiltInv, ExposedIsBuilt

LEMMA RebuiltStep ==
    ASSUME SlotInv, RebuiltInv, [Next]_vars
    PROVE  RebuiltInv'
  <1>1. TypeOK /\ TypeOK' /\ builds \in Nat /\ directory.id \in Nat /\ directory.id <= builds
    BY TypeStep DEF RebuiltInv, TypeOK, Index
  <1>3. CASE Restore
    <2>1. directory.id = Missing
      BY <1>3 DEF RebuiltInv, Restore, EmptyIndex
    <2>2. served'.id = keysFile.id /\ keysFile.id # Missing /\ served'.tail = index'.tail
      BY <1>3 DEF Restore, Restorable
    <2>3. directory' = directory /\ builds' = builds /\ pc' = "persist"
      BY <1>3 DEF Restore
    <2>4. QED
      BY <1>1, <2>1, <2>2, <2>3, FreshRebuilt
  <1>4. CASE InitServer \/ Compact
    <2>1. /\ served'.id = builds + 1 /\ served'.tail = <<>> /\ index'.tail = <<>>
          /\ builds' = builds + 1 /\ pc' = "keys" /\ directory' = directory
      BY <1>4 DEF InitServer, Compact, Install
    <2>2. directory.id # served'.id /\ builds <= builds'
      BY <1>1, <2>1
    <2>3. QED
      BY <1>1, <2>1, <2>2, FreshRebuilt
  <1>5. CASE RefuseStart \/ Change \/ UNCHANGED vars
    BY <1>1, <1>5, StillRebuilt
    DEF RefuseStart, Change, vars, thread, history, budget
  <1>6. CASE WriteKeys \/ WriteIndex \/ Persist \/ SkipCompact \/ CheckpointFails
             \/ PublishFails \/ Reject \/ CompactFails
    <2>1. UNCHANGED <<index, served, directory, builds, rebuilt>>
      BY <1>6 DEF WriteKeys, WriteIndex, Persist, SkipCompact, CheckpointFails,
                  PublishFails, Reject, CompactFails, thread, history
    <2>2. /\ pc # "down" /\ pc' # "down"
          /\ pc' \in Settled => pc \in Settled
      BY <1>6 DEF WriteKeys, WriteIndex, Persist, SkipCompact, CheckpointFails,
                  PublishFails, Reject, CompactFails, Settled
    <2>3. QED
      BY <1>1, <2>1, <2>2, StillRebuilt
  <1>7. CASE RebuildFails
    <2>1. /\ UNCHANGED <<index, served, directory, builds>> /\ pc # "down" /\ pc' # "down"
          /\ ~rebuilt'
      BY <1>7 DEF RebuildFails, thread
    <2>2. QED
      BY <1>1, <2>1, StillRebuilt
  <1>8. CASE Expose
    <2>1. /\ directory' = index /\ UNCHANGED <<index, served, builds, rebuilt>>
          /\ pc = "expose" /\ pc' = "wait"
      BY <1>8 DEF Expose, thread
    <2>2. index.tail \in Seq(Addr) /\ index.id \in Nat
      BY <1>1 DEF TypeOK, Index
    <2>3. IsPrefix(index.tail, index.tail)
      BY <2>2, PrefixRefl
    <2>4. rebuilt => served.tail = index.tail
      BY <2>1 DEF RebuiltInv, Settled
    <2>5. index.id <= builds
      BY DEF SlotInv, Numbered
    <2>6. QED
      BY <1>1, <2>1, <2>3, <2>4, <2>5 DEF RebuiltInv, ExposedIsBuilt, Settled
  <1>9. CASE Absorb
    <2>1. PICK added \in Seq(Addr) : index'.tail = index.tail \o added
      BY <1>1, <1>9, AbsorbGrows
    <2>2. UNCHANGED <<served, directory, builds, rebuilt, pc>> /\ pc = "wait"
      BY <1>9 DEF Absorb, budget
    <2>3. directory.tail \in Seq(Addr) /\ index.tail \in Seq(Addr)
      BY <1>1 DEF TypeOK, Index
    <2>4. directory.id = served.id => IsPrefix(directory.tail, index'.tail)
      BY <2>1, <2>2, <2>3, PrefixConcat DEF RebuiltInv
    <2>5. QED
      BY <1>1, <2>2, <2>4 DEF RebuiltInv, ExposedIsBuilt, Settled
  <1>10. CASE Rebuild
    <2>1. UNCHANGED <<index, directory, builds>> /\ pc = "wait" /\ pc' = "decide"
      BY <1>10 DEF Rebuild
    <2>2. served'.id = served.id /\ served'.tail = index.tail
      BY <1>1, <1>10 DEF Rebuild, TypeOK, Served
    <2>3. QED
      BY <1>1, <2>1, <2>2 DEF RebuiltInv, ExposedIsBuilt
  <1>11. CASE Crash
    <2>1. /\ directory' = EmptyIndex /\ served' = EmptyDatabase /\ index' = EmptyIndex
          /\ pc' = "down" /\ builds' = builds
      BY <1>11 DEF Crash
    <2>2. directory'.id <= builds' /\ served'.tail = <<>> /\ directory'.tail = <<>>
      BY <1>1, <2>1 DEF EmptyIndex, EmptyDatabase, Missing
    <2>3. <<>> \in Seq(Addr)
      OBVIOUS
    <2>4. IsPrefix(<<>>, <<>>)
      BY <2>3, PrefixRefl
    <2>5. QED
      BY <1>1, <2>1, <2>2, <2>4 DEF RebuiltInv, ExposedIsBuilt, Settled
  <1>12. QED
    BY <1>3, <1>4, <1>5, <1>6, <1>7, <1>8, <1>9, <1>10, <1>11 DEF Next, Worker, Fault

(* Nothing is exposed before the first start. *)
LEMMA RebuiltInit == Init => RebuiltInv
  <1> SUFFICES ASSUME Init PROVE RebuiltInv
    OBVIOUS
  <1>1. TypeOK /\ pc = "down" /\ directory = EmptyIndex /\ served = EmptyDatabase
        /\ builds = 0
    BY InitType DEF Init
  <1>2. directory.id <= builds /\ directory.tail = <<>> /\ served.tail = <<>>
    BY <1>1 DEF EmptyIndex, EmptyDatabase, Missing
  <1>3. <<>> \in Seq(Addr)
    OBVIOUS
  <1>4. IsPrefix(<<>>, <<>>)
    BY <1>3, PrefixRefl
  <1>5. QED
    BY <1>1, <1>2, <1>4 DEF RebuiltInv, ExposedIsBuilt, Settled

(* Unless the last rebuild failed, every slot the exposed directory gives   *)
(* is in the served database of its hash: however many updates were         *)
(* absorbed since, whatever else failed, and however often the hash was     *)
(* replaced or the process restarted.                                       *)
THEOREM PublisherExposedIsRebuilt == Spec => []ExposedIsRebuilt
  <1>1. SlotInv /\ RebuiltInv /\ [Next]_vars => SlotInv' /\ RebuiltInv'
    BY SlotStep, RebuiltStep
  <1>2. RebuiltInv => ExposedIsRebuilt
    BY DEF RebuiltInv, ExposedIsRebuilt
  <1>3. QED
    BY <1>1, <1>2, RebuiltInit, SlotInit, PTL DEF Spec

-------------------------------------------------------------------------------
(* Updates. *)

(* The last update queued for an address carries what the map has of it;    *)
(* without one the thread's two maps have it already, or it was refused.    *)
LastQueued(a, k) ==
    /\ queue[k].addr = a /\ queue[k].record = holders[a]
    /\ \A l \in (k + 1)..Len(queue) : queue[l].addr # a

Absorbed(a) ==
    /\ \A k \in 1..Len(queue) : queue[k].addr # a
    /\ a \in rejected \/ (rows[a] = holders[a] /\ current[a] = holders[a])

PendingInv ==
    /\ TypeOK
    /\ pc = "down" => queue = <<>> /\ ~serving
    /\ pc # "down" => /\ rows = current
                      /\ \A a \in Addr : Absorbed(a) \/ \E k \in 1..Len(queue) : LastQueued(a, k)

QueueType == [addr : Addr, record : Record]

LEMMA QueueTaken ==
    ASSUME TypeOK, queue # <<>>, queue' = Tail(queue)
    PROVE  /\ Len(queue) \in Nat /\ Len(queue) >= 1
           /\ Len(queue') = Len(queue) - 1
           /\ \A k \in 1..Len(queue') : queue'[k] = queue[k + 1]
           /\ Head(queue) = queue[1] /\ queue[1].addr \in Addr /\ queue[1].record \in Record
  <1>1. queue \in Seq(QueueType)
    BY DEF TypeOK, QueueType
  <1>2. \A u \in QueueType : u.addr \in Addr /\ u.record \in Record
    BY DEF QueueType
  <1>3. Len(queue) \in Nat /\ Len(queue) >= 1
    BY <1>1, EmptySeq, LenProperties
  <1>4. queue[1] \in QueueType
    BY <1>1, <1>3, ElementOfSeq
  <1>5. QED
    BY <1>1, <1>2, <1>3, <1>4, HeadTailProperties

LEMMA QueueGrows ==
    ASSUME TypeOK, NEW u \in QueueType, queue' = Append(queue, u)
    PROVE  /\ Len(queue) \in Nat /\ Len(queue') = Len(queue) + 1
           /\ \A k \in 1..Len(queue) : queue'[k] = queue[k]
           /\ queue'[Len(queue) + 1] = u
  <1>1. queue \in Seq(QueueType)
    BY DEF TypeOK, QueueType
  <1>2. QED
    BY <1>1, AppendProperties, LenProperties

(* An address whose last update is not the first keeps it; the rest stay.   *)
LEMMA TakenKeeps ==
    ASSUME PendingInv, queue # <<>>, queue' = Tail(queue), holders' = holders,
           pc # "down", NEW a \in Addr,
           a # queue[1].addr => /\ rows'[a] = rows[a] /\ current'[a] = current[a]
                                /\ a \in rejected => a \in rejected',
           a = queue[1].addr =>
               \/ a \in rejected'
               \/ rows'[a] = queue[1].record /\ current'[a] = queue[1].record
    PROVE  Absorbed(a)' \/ \E k \in 1..Len(queue') : LastQueued(a, k)'
  <1>1. /\ Len(queue) \in Nat /\ Len(queue) >= 1
        /\ Len(queue') = Len(queue) - 1
        /\ \A k \in 1..Len(queue') : queue'[k] = queue[k + 1]
    BY QueueTaken DEF PendingInv
  <1>2. CASE Absorbed(a)
    <2>1. a # queue[1].addr
      BY <1>1, <1>2 DEF Absorbed
    <2>2. \A k \in 1..Len(queue') : queue'[k].addr # a
      <3>1. ASSUME NEW k \in 1..Len(queue')
            PROVE  queue'[k].addr # a
        <4>1. k + 1 \in 1..Len(queue) /\ queue'[k] = queue[k + 1]
          BY <1>1
        <4>2. QED
          BY <1>2, <4>1 DEF Absorbed
      <3>2. QED
        BY <3>1
    <2>3. QED
      BY <1>2, <2>1, <2>2 DEF Absorbed
  <1>3. CASE \E k \in 1..Len(queue) : LastQueued(a, k)
    <2>1. PICK k \in 1..Len(queue) : LastQueued(a, k)
      BY <1>3
    <2>2. CASE k = 1
      <3>1. a = queue[1].addr /\ queue[1].record = holders[a]
        BY <2>1, <2>2 DEF LastQueued
      <3>2. ASSUME NEW j \in 1..Len(queue')
            PROVE  queue'[j].addr # a
        <4>1. j + 1 \in 2..Len(queue) /\ queue'[j] = queue[j + 1]
          BY <1>1
        <4>2. QED
          BY <2>1, <2>2, <4>1 DEF LastQueued
      <3>3. QED
        BY <3>1, <3>2 DEF Absorbed
    <2>3. CASE k # 1
      <3>1. k - 1 \in 1..Len(queue') /\ queue'[k - 1] = queue[k]
        BY <1>1, <2>3
      <3>2. ASSUME NEW l \in ((k - 1) + 1)..Len(queue')
            PROVE  queue'[l].addr # a
        <4>1. l \in 1..Len(queue') /\ l + 1 \in (k + 1)..Len(queue)
          BY <1>1
        <4>2. queue'[l] = queue[l + 1]
          BY <1>1, <4>1
        <4>3. QED
          BY <2>1, <4>1, <4>2 DEF LastQueued
      <3>3. LastQueued(a, k - 1)'
        BY <2>1, <3>1, <3>2 DEF LastQueued
      <3>4. QED
        BY <3>1, <3>3
    <2>4. QED
      BY <2>2, <2>3
  <1>4. QED
    BY <1>2, <1>3 DEF PendingInv

LEMMA ChangePending ==
    ASSUME PendingInv, TypeOK', Change
    PROVE  PendingInv'
  <1>1. PICK b \in Addr, r \in Record :
          /\ r # holders[b] /\ holders' = [holders EXCEPT ![b] = r]
          /\ queue' = IF serving THEN Append(queue, [addr |-> b, record |-> r]) ELSE queue
    BY DEF Change
  <1>2. UNCHANGED <<pc, rows, current, serving, rejected>> /\ (pc = "down" \/ serving)
    BY DEF Change, thread, history
  <1>3. CASE pc = "down"
    BY <1>1, <1>2, <1>3 DEF PendingInv
  <1>4. CASE pc # "down"
    <2>1. queue' = Append(queue, [addr |-> b, record |-> r])
      BY <1>1, <1>2, <1>4
    <2>2. [addr |-> b, record |-> r] \in QueueType
      BY DEF QueueType
    <2>3. /\ Len(queue) \in Nat /\ Len(queue') = Len(queue) + 1
          /\ \A k \in 1..Len(queue) : queue'[k] = queue[k]
          /\ queue'[Len(queue) + 1] = [addr |-> b, record |-> r]
      BY <2>1, <2>2, QueueGrows DEF PendingInv
    <2>4. holders \in [Addr -> Record]
      BY DEF PendingInv, TypeOK
    <2>5. ASSUME NEW a \in Addr
          PROVE  Absorbed(a)' \/ \E k \in 1..Len(queue') : LastQueued(a, k)'
      <3>1. CASE a = b
        <4>1. PICK n \in 1..Len(queue') : n = Len(queue) + 1
          BY <2>3
        <4>2. \A l \in (n + 1)..Len(queue') : FALSE
          BY <2>3, <4>1
        <4>3. queue'[n].addr = a /\ queue'[n].record = r /\ holders'[a] = r
          BY <1>1, <2>3, <2>4, <3>1, <4>1
        <4>4. LastQueued(a, n)'
          BY <4>2, <4>3 DEF LastQueued
        <4>5. QED
          BY <4>4
      <3>2. CASE a # b
        <4>1. holders'[a] = holders[a]
          BY <1>1, <2>4, <3>2
        <4>2. \A k \in 1..Len(queue') : k \in 1..Len(queue) \/ k = Len(queue) + 1
          BY <2>3
        <4>3. CASE Absorbed(a)
          <5>1. \A k \in 1..Len(queue') : queue'[k].addr # a
            BY <2>3, <3>2, <4>2, <4>3 DEF Absorbed
          <5>2. QED
            BY <1>2, <4>1, <4>3, <5>1 DEF Absorbed
        <4>4. CASE \E k \in 1..Len(queue) : LastQueued(a, k)
          <5>1. PICK k \in 1..Len(queue) : LastQueued(a, k)
            BY <4>4
          <5>2. k \in 1..Len(queue') /\ queue'[k] = queue[k]
            BY <2>3
          <5>3. ASSUME NEW l \in (k + 1)..Len(queue')
                PROVE  queue'[l].addr # a
            <6>1. l \in (k + 1)..Len(queue) \/ l = Len(queue) + 1
              BY <2>3
            <6>2. CASE l = Len(queue) + 1
              BY <2>3, <3>2, <6>2
            <6>3. CASE l \in (k + 1)..Len(queue)
              <7>1. l \in 1..Len(queue)
                BY <2>3, <6>3
              <7>2. QED
                BY <2>3, <5>1, <6>3, <7>1 DEF LastQueued
            <6>4. QED
              BY <6>1, <6>2, <6>3
          <5>4. LastQueued(a, k)'
            BY <4>1, <5>1, <5>2, <5>3 DEF LastQueued
          <5>5. QED
            BY <5>2, <5>4
        <4>5. QED
          BY <1>4, <4>3, <4>4 DEF PendingInv
      <3>3. QED
        BY <3>1, <3>2
    <2>6. QED
      BY <1>2, <1>4, <2>5 DEF PendingInv
  <1>5. QED
    BY <1>3, <1>4

(* Steps that leave the map, the queue and the thread's records alone.      *)
LEMMA StillPending ==
    ASSUME PendingInv, TypeOK', UNCHANGED <<holders, queue, rows, current, rejected>>,
           pc' = "down" => pc = "down" /\ serving' = serving,
           pc = "down" => pc' = "down"
    PROVE  PendingInv'
  BY DEF PendingInv, Absorbed, LastQueued

LEMMA PendingStep ==
    ASSUME PendingInv, [Next]_vars
    PROVE  PendingInv'
  <1>1. TypeOK /\ TypeOK'
    BY TypeStep DEF PendingInv
  <1>2. CASE Restore \/ InitServer
    <2>1. /\ queue = <<>> /\ queue' = <<>> /\ holders' = holders /\ pc' # "down"
          /\ rows' = holders /\ current' = holders
      BY <1>2 DEF PendingInv, Restore, InitServer, Install
    <2>2. \A k \in 1..Len(queue') : FALSE
      BY <2>1
    <2>3. QED
      BY <1>1, <2>1, <2>2 DEF PendingInv, Absorbed
  <1>3. CASE RefuseStart \/ UNCHANGED vars
    BY <1>1, <1>3, StillPending DEF RefuseStart, vars, thread, history
  <1>4. CASE WriteKeys \/ WriteIndex \/ Persist \/ Expose \/ Rebuild \/ SkipCompact
             \/ CheckpointFails \/ PublishFails \/ RebuildFails \/ CompactFails
    <2>1. UNCHANGED <<holders, queue, rows, current, rejected>>
      BY <1>4 DEF WriteKeys, WriteIndex, Persist, Expose, Rebuild, SkipCompact,
                  CheckpointFails, PublishFails, RebuildFails, CompactFails, thread, history
    <2>2. pc # "down" /\ pc' # "down"
      BY <1>4 DEF WriteKeys, WriteIndex, Persist, Expose, Rebuild, SkipCompact,
                  CheckpointFails, PublishFails, RebuildFails, CompactFails
    <2>3. QED
      BY <1>1, <2>1, <2>2, StillPending
  <1>5. CASE Compact
    <2>1. /\ UNCHANGED <<holders, queue, rejected>> /\ pc # "down" /\ pc' # "down"
          /\ rows' = current /\ current' = current
      BY <1>5 DEF Compact, Install
    <2>2. UNCHANGED <<holders, queue, rows, current, rejected>>
      BY <2>1 DEF PendingInv
    <2>3. QED
      BY <1>1, <2>1, <2>2, StillPending
  <1>6. CASE Absorb
    <2>1. /\ queue # <<>> /\ queue' = Tail(queue) /\ holders' = holders
          /\ pc = "wait" /\ pc' = pc
          /\ rows' = [rows EXCEPT ![Head(queue).addr] = Head(queue).record]
          /\ current' = [current EXCEPT ![Head(queue).addr] = Head(queue).record]
          /\ rejected' = rejected \ {Head(queue).addr}
      BY <1>6 DEF Absorb
    <2>2. Head(queue) = queue[1] /\ queue[1].addr \in Addr /\ queue[1].record \in Record
      BY <1>1, <2>1, QueueTaken
    <2>3. rows \in [Addr -> Record] /\ current \in [Addr -> Record] /\ rows = current
      BY <1>1, <2>1 DEF TypeOK, PendingInv
    <2>4. ASSUME NEW a \in Addr
          PROVE  Absorbed(a)' \/ \E k \in 1..Len(queue') : LastQueued(a, k)'
      BY <2>1, <2>2, <2>3, TakenKeeps
    <2>5. QED
      BY <1>1, <2>1, <2>3, <2>4 DEF PendingInv
  <1>7. CASE Reject
    <2>1. /\ queue # <<>> /\ queue' = Tail(queue) /\ UNCHANGED <<holders, rows, current>>
          /\ pc = "wait" /\ pc' = pc
          /\ rejected' = rejected \cup {Head(queue).addr}
      BY <1>7 DEF Reject, thread
    <2>2. Head(queue) = queue[1]
      BY <1>1, <2>1, QueueTaken
    <2>3. ASSUME NEW a \in Addr
          PROVE  Absorbed(a)' \/ \E k \in 1..Len(queue') : LastQueued(a, k)'
      BY <2>1, <2>2, TakenKeeps
    <2>4. QED
      BY <1>1, <2>1, <2>3 DEF PendingInv
  <1>8. CASE Change
    BY <1>1, <1>8, ChangePending
  <1>9. CASE Crash
    BY <1>1, <1>9 DEF Crash, PendingInv
  <1>10. QED
    BY <1>2, <1>3, <1>4, <1>5, <1>6, <1>7, <1>8, <1>9 DEF Next, Worker, Fault

(* Whenever nothing is queued the thread's two maps are the syncer's, but   *)
(* for addresses whose update was refused: no change is lost between the    *)
(* threads, at a restart or by a compaction.                                *)
THEOREM PublisherAbsorbedIsMap == Spec => []AbsorbedIsMap
  <1>1. Init => PendingInv
    BY InitType DEF Init, PendingInv
  <1>2. PendingInv /\ [Next]_vars => PendingInv'
    BY PendingStep
  <1>3. PendingInv => AbsorbedIsMap
    <2> SUFFICES ASSUME PendingInv, serving, queue = <<>>, NEW a \in Addr \ rejected
                 PROVE  rows[a] = holders[a] /\ current[a] = holders[a]
      BY DEF AbsorbedIsMap
    <2>1. pc # "down" /\ \A k \in 1..Len(queue) : FALSE
      BY DEF PendingInv
    <2>2. Absorbed(a)
      BY <2>1 DEF PendingInv
    <2>3. QED
      BY <2>2 DEF Absorbed
  <1>4. QED
    BY <1>1, <1>2, <1>3, PTL DEF Spec
===============================================================================

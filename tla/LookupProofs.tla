------------------------------ MODULE LookupProofs ------------------------------
(***************************************************************************)
(* Theorems about Lookup: a client and the PIR thread, for every address    *)
(* set and every bound on changes, failures and restarts.                   *)
(***************************************************************************)
EXTENDS Lookup, PublisherProofs

-------------------------------------------------------------------------------
(* Tails.                                                                   *)

(* The prefix relation, element by element. *)
Starts(s, t) == Len(s) <= Len(t) /\ \A i \in 1..Len(s) : s[i] = t[i]

LEMMA StartsIsPrefix ==
    ASSUME NEW s \in Seq(Addr), NEW t \in Seq(Addr), IsPrefix(s, t)
    PROVE  Starts(s, t)
  <1> DEFINE n == Len(s)
  <1>1. n \in Nat /\ n <= Len(t) /\ SubSeq(s, 1, n) = SubSeq(t, 1, n) /\ Len(t) \in Nat
    BY LenProperties DEF IsPrefix
  <1>2. /\ \A i \in 1..n : s[i] \in Addr
        /\ \A i \in 1..n : t[i] \in Addr
    BY <1>1, ElementOfSeq
  <1> HIDE DEF n
  <1>3. \A i \in 1..n : SubSeq(s, 1, n)[i] = s[i]
    BY <1>1, <1>2, SubSeqProperties
  <1>4. \A i \in 1..n : SubSeq(t, 1, n)[i] = t[i]
    BY <1>1, <1>2, SubSeqProperties
  <1>5. QED
    BY <1>1, <1>3, <1>4 DEF Starts, n

LEMMA StartsRefl == ASSUME NEW s \in Seq(Addr) PROVE Starts(s, s)
  BY LenProperties DEF Starts

LEMMA StartsTrans ==
    ASSUME NEW s \in Seq(Addr), NEW t \in Seq(Addr), NEW u \in Seq(Addr),
           Starts(s, t), Starts(t, u)
    PROVE  Starts(s, u)
  <1>1. Len(s) \in Nat /\ Len(t) \in Nat /\ Len(u) \in Nat
    BY LenProperties
  <1>2. QED
    BY <1>1 DEF Starts

LEMMA StartsConcat ==
    ASSUME NEW s \in Seq(Addr), NEW t \in Seq(Addr)
    PROVE  Starts(s, s \o t)
  <1>1. Len(s) \in Nat /\ Len(t) \in Nat
    BY LenProperties
  <1>2. Len(s \o t) = Len(s) + Len(t) /\ \A i \in 1..Len(s) : (s \o t)[i] = s[i]
    BY ConcatProperties, <1>1
  <1>3. QED
    BY <1>1, <1>2 DEF Starts

(* A copy that fetches what it lacks has all there is.                      *)
LEMMA FetchedTail ==
    ASSUME NEW s \in Seq(Addr), NEW t \in Seq(Addr), Starts(s, t)
    PROVE  s \o SubSeq(t, Len(s) + 1, Len(t)) = t
  <1> DEFINE m == Len(s) n == Len(t) rest == SubSeq(t, m + 1, n)
  <1>1. m \in Nat /\ n \in Nat /\ m <= n /\ \A i \in 1..m : s[i] = t[i]
    BY LenProperties DEF Starts
  <1>2. /\ rest \in Seq(Addr) /\ Len(rest) = n - m
        /\ \A i \in 1..(n - m) : rest[i] = t[m + i]
    <2>1. \A i \in (m + 1)..n : t[i] \in Addr
      BY <1>1, ElementOfSeq
    <2> HIDE DEF m, n
    <2>2. CASE m + 1 <= n
      BY <1>1, <2>1, <2>2, SubSeqProperties
    <2>3. CASE m + 1 > n
      BY <1>1, <2>1, <2>3, SubSeqProperties
    <2>4. QED
      BY <1>1, <2>2, <2>3
  <1>3. /\ s \o rest \in Seq(Addr) /\ Len(s \o rest) = m + Len(rest)
        /\ \A i \in 1..m : (s \o rest)[i] = s[i]
        /\ \A i \in (m + 1)..(m + Len(rest)) : (s \o rest)[i] = rest[i - m]
    BY <1>2, ConcatProperties
  <1> HIDE DEF m, n, rest
  <1>4. Len(s \o rest) = n
    BY <1>1, <1>2, <1>3
  <1>5. ASSUME NEW i \in 1..n PROVE (s \o rest)[i] = t[i]
    <2>1. CASE i <= m
      BY <1>1, <1>3, <2>1
    <2>2. CASE i > m
      <3>1. i \in (m + 1)..(m + Len(rest)) /\ i - m \in 1..(n - m) /\ m + (i - m) = i
        BY <1>1, <1>2, <2>2
      <3>2. (s \o rest)[i] = rest[i - m]
        BY <1>3, <3>1
      <3>3. rest[i - m] = t[m + (i - m)]
        BY <1>2, <3>1
      <3>4. QED
        BY <3>1, <3>2, <3>3
    <2>3. i <= m \/ i > m
      BY <1>1
    <2>4. QED
      BY <2>1, <2>2, <2>3
  <1>6. QED
    BY <1>3, <1>4, <1>5, SeqEqual DEF m, n, rest

(* Equal lengths and a common start: the same tail.                         *)
LEMMA StartsEqual ==
    ASSUME NEW s \in Seq(Addr), NEW t \in Seq(Addr), Starts(s, t), Len(t) <= Len(s)
    PROVE  s = t
  <1>1. Len(s) \in Nat /\ Len(t) \in Nat /\ Len(s) = Len(t)
    BY LenProperties DEF Starts
  <1>2. QED
    BY <1>1, SeqEqual DEF Starts

-------------------------------------------------------------------------------
(* The server's side.                                                       *)

(* The endpoint serves the last directory exposed, which continues all of   *)
(* them, or none.                                                           *)
DirectoryInv ==
    /\ serving => pc # "down"
    /\ pc = "down" => directory = EmptyIndex
    /\ pc # "down" => index.id # Missing
    /\ directory = EmptyIndex \/ directory \in exposed
    /\ \A e \in exposed : e.id # Missing /\ Continues(directory, e)

LEMMA NothingContinues ==
    ASSUME NEW e, e.id # Missing
    PROVE  Continues(EmptyIndex, e)
  BY DEF EmptyIndex, Continues

LEMMA DirectoryStep ==
    ASSUME SlotInv, DirectoryInv, [Next]_vars
    PROVE  DirectoryInv'
  <1>1. TypeOK /\ TypeOK'
    BY TypeStep DEF SlotInv
  <1>2. builds \in Nat /\ index \in Index /\ exposed \subseteq Index
    BY <1>1 DEF TypeOK
  <1>3. CASE Restore
    <2>1. /\ index'.id = indexFile.id /\ indexFile.id # Missing
          /\ pc = "down" /\ pc' = "persist"
          /\ UNCHANGED <<directory, exposed, serving>>
      BY <1>1, <1>3, RestoreGrows DEF Restore, Restorable, history
    <2>2. QED
      BY <2>1 DEF DirectoryInv, Continues
  <1>4. CASE InitServer \/ Compact
    <2>1. index'.id = builds + 1 /\ pc' = "keys"
      BY <1>4 DEF InitServer, Compact, Install
    <2>2. index'.id # Missing
      BY <1>2, <2>1 DEF Missing
    <2>3. UNCHANGED <<directory, exposed, serving>>
      BY <1>4 DEF InitServer, Compact
    <2>4. QED
      BY <2>1, <2>2, <2>3 DEF DirectoryInv, Continues
  <1>5. CASE Absorb
    <2>1. /\ index'.id = index.id /\ pc = "wait" /\ pc' = pc
          /\ UNCHANGED <<directory, exposed, serving>>
      BY <1>1, <1>5, AbsorbGrows DEF Absorb
    <2>2. QED
      BY <2>1 DEF DirectoryInv, Continues
  <1>6. CASE Expose
    <2>1. /\ pc = "expose" /\ pc' = "wait" /\ directory' = index
          /\ exposed' = exposed \cup {index} /\ index' = index
      BY <1>6 DEF Expose, thread
    <2>2. Continues(index, index)
      BY <1>2, PrefixRefl DEF Continues, Index
    <2>3. index.id # Missing /\ \A e \in exposed : e.id # Missing /\ Continues(index, e)
      BY <2>1 DEF DirectoryInv, SlotInv
    <2>4. \A e \in exposed' : e.id # Missing /\ Continues(directory', e)
      BY <2>1, <2>2, <2>3
    <2>5. QED
      BY <2>1, <2>3, <2>4 DEF DirectoryInv
  <1>7. CASE Crash
    <2>1. pc' = "down" /\ ~serving' /\ directory' = EmptyIndex /\ exposed' = exposed
      BY <1>7 DEF Crash
    <2>2. \A e \in exposed : e.id # Missing /\ Continues(EmptyIndex, e)
      BY NothingContinues DEF DirectoryInv
    <2>3. QED
      BY <2>1, <2>2 DEF DirectoryInv
  <1>8. CASE \/ WriteKeys \/ WriteIndex \/ Persist \/ Rebuild \/ SkipCompact
             \/ CheckpointFails \/ PublishFails \/ Reject \/ RebuildFails \/ CompactFails
    <2>1. /\ pc # "down" /\ pc' # "down"
          /\ UNCHANGED <<index, directory, exposed>>
      BY <1>8 DEF WriteKeys, WriteIndex, Persist, Rebuild, SkipCompact, CheckpointFails,
                  PublishFails, Reject, RebuildFails, CompactFails, thread, history
    <2>2. QED
      BY <2>1 DEF DirectoryInv, Continues
  <1>9. CASE Change \/ RefuseStart \/ UNCHANGED vars
    <2>1. UNCHANGED <<pc, serving, index, directory, exposed>>
      BY <1>9 DEF Change, RefuseStart, vars, thread, history
    <2>2. QED
      BY <2>1 DEF DirectoryInv, Continues
  <1>10. QED
    BY <1>3, <1>4, <1>5, <1>6, <1>7, <1>8, <1>9 DEF Next, Worker, Fault

(* The slot table: the served tail starts the live one, of the same hash as *)
(* long as the version tells it.                                            *)
TableInv ==
    pc # "down" =>
        /\ Starts(served.tail, index.tail)
        /\ inits <= 1 => served.id = index.id /\ served.base = index.base

LEMMA RestoreTable ==
    ASSUME TypeOK, TypeOK', inits <= 1 => Ordered, Restore
    PROVE  TableInv'
  <1>1. PICK added : index' = [indexFile EXCEPT !.tail = @ \o added]
    BY DEF Restore
  <1>2. indexFile \in Index /\ index'.tail \in Seq(Addr)
    BY DEF TypeOK, Index
  <1>3. index'.id = indexFile.id /\ index'.base = indexFile.base
    BY <1>1, <1>2 DEF Index
  <1>4. /\ served' = [id |-> keysFile.id, base |-> keysFile.base,
                      tail |-> index'.tail, rows |-> holders]
        /\ inits' = inits /\ Restorable
    BY DEF Restore, history
  <1>5. Starts(served'.tail, index'.tail)
    BY <1>2, <1>4, StartsRefl
  <1>6. inits' <= 1 => served'.id = index'.id /\ served'.base = index'.base
    BY <1>3, <1>4 DEF Ordered
  <1>7. QED
    BY <1>5, <1>6 DEF TableInv

LEMMA InstallTable ==
    ASSUME NEW v, NEW map, Install(v, map)
    PROVE  TableInv'
  <1>1. /\ index'.tail = <<>> /\ served'.tail = <<>> /\ served'.id = index'.id
        /\ served'.base = index'.base
    BY DEF Install
  <1>2. Starts(<<>>, <<>>)
    BY DEF Starts
  <1>3. QED
    BY <1>1, <1>2 DEF TableInv

(* The live index after an update: a new address is at its end.             *)
LEMMA AbsorbTable ==
    ASSUME TypeOK, TypeOK', TableInv, Absorb
    PROVE  TableInv'
  <1> DEFINE b == Head(queue).addr
  <1>1. /\ pc = "wait" /\ UNCHANGED <<served, inits, pc>>
        /\ index' = IF b \in Known THEN index ELSE [index EXCEPT !.tail = Append(@, b)]
    BY DEF Absorb
  <1>2. b \in Addr
    BY HeadTailProperties DEF TypeOK, Absorb
  <1>3. /\ index \in Index /\ index.tail \in Seq(Addr) /\ served.tail \in Seq(Addr)
    BY DEF TypeOK, Index, Served
  <1> HIDE DEF b
  <1>4. CASE b \in Known
    BY <1>1, <1>4 DEF TableInv
  <1>5. CASE b \notin Known
    <2>1. /\ index'.tail = index.tail \o <<b>> /\ <<b>> \in Seq(Addr)
          /\ index'.id = index.id /\ index'.base = index.base
      BY <1>1, <1>2, <1>3, <1>5, AppendIsConcat DEF Index
    <2>2. index'.tail \in Seq(Addr)
      BY DEF TypeOK, Index
    <2>3. Starts(served.tail, index'.tail)
      <3>1. Starts(index.tail, index'.tail)
        BY <1>3, <2>1, StartsConcat
      <3>2. Starts(served.tail, index.tail)
        BY <1>1 DEF TableInv
      <3>3. QED
        BY <1>3, <2>2, <3>1, <3>2, StartsTrans
    <2>4. QED
      BY <1>1, <2>1, <2>3 DEF TableInv
  <1>6. QED
    BY <1>4, <1>5

LEMMA RebuildTable ==
    ASSUME TypeOK, TableInv, Rebuild
    PROVE  TableInv'
  <1>1. /\ pc = "wait" /\ UNCHANGED <<index, inits>>
        /\ served' = [served EXCEPT !.tail = index.tail, !.rows = rows]
    BY DEF Rebuild, history
  <1>2. served \in Served /\ index.tail \in Seq(Addr)
    BY DEF TypeOK, Index
  <1>3. served'.tail = index.tail /\ served'.id = served.id /\ served'.base = served.base
    BY <1>1, <1>2 DEF Served
  <1>4. Starts(served'.tail, index'.tail)
    BY <1>1, <1>2, <1>3, StartsRefl
  <1>5. QED
    BY <1>1, <1>3, <1>4 DEF TableInv

LEMMA TableStep ==
    ASSUME SlotInv, VersionInv, TableInv, [Next]_vars
    PROVE  TableInv'
  <1>1. TypeOK /\ TypeOK' /\ (inits <= 1 => Ordered)
    BY TypeStep DEF SlotInv, VersionInv
  <1>2. CASE Restore
    BY <1>1, <1>2, RestoreTable
  <1>3. CASE InitServer \/ Compact
    BY <1>3, InstallTable DEF InitServer, Compact
  <1>4. CASE Absorb
    BY <1>1, <1>4, AbsorbTable
  <1>5. CASE Rebuild
    BY <1>1, <1>5, RebuildTable
  <1>6. CASE Crash
    BY <1>6 DEF Crash, TableInv
  <1>7. CASE \/ WriteKeys \/ WriteIndex \/ Persist \/ Expose \/ SkipCompact
             \/ CheckpointFails \/ PublishFails \/ Reject \/ RebuildFails \/ CompactFails
    <2>1. pc # "down" /\ UNCHANGED <<index, served, inits>>
      BY <1>7 DEF WriteKeys, WriteIndex, Persist, Expose, SkipCompact, CheckpointFails,
                  PublishFails, Reject, RebuildFails, CompactFails, thread, history
    <2>2. QED
      BY <2>1 DEF TableInv
  <1>8. CASE Change \/ RefuseStart \/ UNCHANGED vars
    <2>1. UNCHANGED <<pc, index, served, inits>>
      BY <1>8 DEF Change, RefuseStart, vars, thread, history
    <2>2. QED
      BY <2>1 DEF TableInv
  <1>9. QED
    BY <1>2, <1>3, <1>4, <1>5, <1>6, <1>7, <1>8 DEF Next, Worker, Fault

(* Unless the last rebuild failed, every directory ever exposed of the      *)
(* served hash has rows for all of its tail.                                *)
BuiltInv ==
    inits <= 1 /\ rebuilt /\ pc # "down" =>
        \A e \in exposed : e.id = served.id => Len(e.tail) <= Len(served.tail)

(* When the live tail has rows so has what was exposed: it starts that.     *)
LEMMA AllBuilt ==
    ASSUME SlotInv', TableInv',
           inits' <= 1 /\ rebuilt' /\ pc' # "down" => served'.tail = index'.tail
    PROVE  BuiltInv'
  <1> SUFFICES ASSUME inits' <= 1, rebuilt', pc' # "down",
                      NEW e \in exposed', e.id = served'.id
               PROVE  Len(e.tail) <= Len(served'.tail)
    BY DEF BuiltInv
  <1>1. served'.tail = index'.tail /\ e.id = index'.id /\ Continues(index', e)
    BY DEF SlotInv, TableInv, Continues
  <1>2. e.tail \in Seq(Addr) /\ index'.tail \in Seq(Addr)
    BY DEF SlotInv, TypeOK, Index
  <1>3. Starts(e.tail, index'.tail)
    BY <1>1, <1>2, StartsIsPrefix DEF Continues
  <1>4. QED
    BY <1>1, <1>3 DEF Starts

LEMMA BuiltStep ==
    ASSUME FullInv, RebuiltInv, TableInv, BuiltInv, FullInv', TableInv', [Next]_vars
    PROVE  BuiltInv'
  <1>1. SlotInv' /\ TableInv' /\ TypeOK
    BY DEF FullInv, SlotInv
  <1>2. CASE Restore
    <2>1. served'.tail = index'.tail
      BY <1>2 DEF Restore
    <2>2. QED
      BY <1>1, <2>1, AllBuilt
  <1>3. CASE InitServer \/ Compact
    <2>1. served'.tail = <<>> /\ index'.tail = <<>>
      BY <1>3 DEF InitServer, Compact, Install
    <2>2. QED
      BY <1>1, <2>1, AllBuilt
  <1>4. CASE Rebuild
    <2>1. served'.tail = index.tail /\ index' = index
      BY <1>1, <1>4 DEF Rebuild, TypeOK, Served
    <2>2. QED
      BY <1>1, <2>1, AllBuilt
  <1>5. CASE Expose
    <2>1. pc = "expose" /\ UNCHANGED <<index, served, rebuilt>>
      BY <1>5 DEF Expose, thread
    <2>2. rebuilt => served.tail = index.tail
      BY <2>1 DEF RebuiltInv, Settled
    <2>3. QED
      BY <1>1, <2>1, <2>2, AllBuilt
  <1>6. CASE \/ WriteKeys \/ WriteIndex \/ Persist \/ Absorb \/ SkipCompact
             \/ CheckpointFails \/ PublishFails \/ Reject \/ CompactFails
    <2>1. pc # "down" /\ UNCHANGED <<served, exposed, inits, rebuilt>>
      BY <1>6 DEF WriteKeys, WriteIndex, Persist, Absorb, SkipCompact, CheckpointFails,
                  PublishFails, Reject, CompactFails, thread, history
    <2>2. QED
      BY <2>1 DEF BuiltInv
  <1>7. CASE RebuildFails
    <2>1. ~rebuilt'
      BY <1>7 DEF RebuildFails
    <2>2. QED
      BY <2>1 DEF BuiltInv
  <1>8. CASE Crash
    BY <1>8 DEF Crash, BuiltInv
  <1>9. CASE Change \/ RefuseStart \/ UNCHANGED vars
    <2>1. UNCHANGED <<pc, served, exposed, inits, rebuilt>>
      BY <1>9 DEF Change, RefuseStart, vars, thread, history
    <2>2. QED
      BY <2>1 DEF BuiltInv
  <1>10. QED
    BY <1>2, <1>3, <1>4, <1>5, <1>6, <1>7, <1>8, <1>9 DEF Next, Worker, Fault

-------------------------------------------------------------------------------
(* The client's side.                                                       *)

CopyOf(x, e) ==
    x.id = e.id /\ x.version = e.version /\ x.base = e.base /\ Starts(x.tail, e.tail)
Kept(x) == \E e \in exposed : CopyOf(x, e)

(* Without a second fresh start a client's directory, and the one a query   *)
(* went by, start a directory that was exposed; and the slot a query went   *)
(* by still stands.                                                         *)
ClientInv ==
    /\ LookupTypeOK
    /\ pending # NoQuery => pending.addr \in Addr
    /\ QuerySlotStands
    /\ inits <= 1 => /\ copy.id # Missing => Kept(copy)
                     /\ pending # NoQuery => Kept(pending.through)

LookupInv == FullInv /\ RebuiltInv /\ DirectoryInv /\ TableInv /\ BuiltInv /\ ClientInv

(* Two directories of one version are of one hash, and the one being served *)
(* has the slots of every other.                                            *)
LEMMA CopyAgrees ==
    ASSUME LookupInv, inits <= 1, NEW x \in Index, Kept(x),
           directory.id # Missing, directory.version = x.version
    PROVE  /\ directory \in exposed
           /\ x.id = directory.id /\ x.base = directory.base
           /\ Starts(x.tail, directory.tail)
  <1>1. Ordered /\ TypeOK
    BY DEF LookupInv, FullInv, VersionInv, SlotInv
  <1>2. PICK e \in exposed : CopyOf(x, e)
    BY DEF Kept
  <1>3. directory \in exposed
    BY DEF LookupInv, DirectoryInv, EmptyIndex
  <1>4. e.version = directory.version
    BY <1>2 DEF CopyOf
  <1>5. e.id = directory.id
    BY <1>1, <1>2, <1>3, <1>4 DEF Ordered, SameHash
  <1>6. Continues(directory, e)
    BY <1>2 DEF LookupInv, DirectoryInv
  <1>7. e.base = directory.base /\ IsPrefix(e.tail, directory.tail)
    BY <1>5, <1>6 DEF Continues
  <1>8. x.tail \in Seq(Addr) /\ e.tail \in Seq(Addr) /\ directory.tail \in Seq(Addr)
    BY <1>1 DEF TypeOK, Index
  <1>9. Starts(e.tail, directory.tail)
    BY <1>7, <1>8, StartsIsPrefix
  <1>10. Starts(x.tail, directory.tail)
    BY <1>2, <1>8, <1>9, StartsTrans DEF CopyOf
  <1>11. QED
    BY <1>2, <1>3, <1>5, <1>7, <1>10 DEF CopyOf

LEMMA ExposedGrows ==
    ASSUME TypeOK, [Next]_vars
    PROVE  /\ exposed \subseteq exposed'
           /\ inits \in Nat /\ inits' \in Nat /\ inits <= inits'
  <1>1. inits \in Nat
    BY DEF TypeOK
  <1>2. exposed \subseteq exposed' /\ (inits' = inits \/ inits' = inits + 1)
    BY DEF Next, Worker, Fault, vars, Restore, RefuseStart, InitServer, WriteKeys,
           WriteIndex, CheckpointFails, Persist, PublishFails, Expose, Absorb, Reject,
           Rebuild, RebuildFails, Compact, SkipCompact, CompactFails, Change, Crash,
           history
  <1>3. QED
    BY <1>1, <1>2

(* What the server does leaves the client's directories where they were.    *)
LEMMA ServerKeepsClient ==
    ASSUME ClientInv, [Next]_vars, UNCHANGED clientVars
    PROVE  ClientInv'
  <1>1. TypeOK /\ TypeOK'
    BY TypeStep DEF ClientInv, LookupTypeOK
  <1>2. UNCHANGED <<copy, plan, pending, answer>>
    BY DEF clientVars
  <1>3. LookupTypeOK'
    BY <1>1, <1>2 DEF ClientInv, LookupTypeOK
  <1>4. /\ exposed \subseteq exposed'
        /\ inits' <= 1 => inits <= 1
    BY <1>1, ExposedGrows
  <1>5. \A x : Kept(x) => \E e \in exposed' : CopyOf(x, e)
    BY <1>4 DEF Kept
  <1>6. inits' <= 1 => /\ copy.id # Missing => \E e \in exposed' : CopyOf(copy, e)
                       /\ pending # NoQuery => \E e \in exposed' : CopyOf(pending.through, e)
    BY <1>4, <1>5 DEF ClientInv
  <1>7. QED
    BY <1>2, <1>3, <1>6
    DEF ClientInv, QuerySlotStands, Continues, Kept, CopyOf, Starts, NoQuery, EmptyIndex

(* A tail fetched after a copy of the same version completes it, and moves  *)
(* no slot of it.                                                           *)
LEMMA FetchedCopy ==
    ASSUME LookupInv, FetchTail, UNCHANGED vars
    PROVE  /\ copy' \in Index
           /\ inits <= 1 /\ copy'.id # Missing => Kept(copy')
           /\ \A y \in Index : copy.id = y.id /\ Continues(copy, y)
                               => copy'.id = y.id /\ Continues(copy', y)
  <1> DEFINE t == copy.tail rest == SubSeq(directory.tail, Len(t) + 1, Len(directory.tail))
  <1>1. TypeOK /\ copy \in Index /\ directory \in Index
    BY DEF LookupInv, ClientInv, LookupTypeOK, TypeOK
  <1>2. t \in Seq(Addr) /\ directory.tail \in Seq(Addr)
    BY <1>1 DEF Index
  <1>3. CASE ~TailFits
    <2>1. copy' = copy
      BY <1>3 DEF FetchTail
    <2>2. QED
      BY <1>1, <2>1 DEF LookupInv, ClientInv
  <1>4. CASE TailFits
    <2>1. copy' = [copy EXCEPT !.tail = t \o rest]
      BY <1>4 DEF FetchTail
    <2>2. Len(t) \in Nat /\ Len(directory.tail) \in Nat /\ Len(t) <= Len(directory.tail)
      BY <1>2, <1>4, LenProperties DEF TailFits
    <2>3. rest \in Seq(Addr)
      <3>1. \A i \in (Len(t) + 1)..Len(directory.tail) : directory.tail[i] \in Addr
        BY <1>2, <2>2, ElementOfSeq
      <3>2. QED
        BY <2>2, <3>1, SubSeqProperties
    <2>4. t \o rest \in Seq(Addr)
      BY <1>2, <2>3, ConcatProperties
    <2> HIDE DEF t, rest
    <2>5. /\ copy'.tail = t \o rest /\ copy'.id = copy.id
          /\ copy'.version = copy.version /\ copy'.base = copy.base
          /\ copy' \in Index
      BY <1>1, <2>1, <2>4 DEF Index
    <2>6. ASSUME inits <= 1, copy.id # Missing
          PROVE  Kept(copy')
      <3>1. Kept(copy)
        BY <2>6 DEF LookupInv, ClientInv
      <3>2. CASE directory.id # Missing
        <4>1. /\ directory \in exposed /\ copy.id = directory.id
              /\ copy.base = directory.base /\ Starts(t, directory.tail)
              /\ copy.version = directory.version
          BY <1>1, <1>4, <2>6, <3>1, <3>2, CopyAgrees DEF TailFits, t
        <4>2. t \o rest = directory.tail
          BY <1>2, <4>1, FetchedTail DEF rest
        <4>3. CopyOf(copy', directory)
          BY <1>2, <2>5, <4>1, <4>2, StartsRefl DEF CopyOf
        <4>4. QED
          BY <4>1, <4>3 DEF Kept
      <3>3. CASE directory.id = Missing
        <4>1. directory = EmptyIndex
          BY <3>3 DEF LookupInv, DirectoryInv
        <4>2. directory.tail = <<>>
          BY <4>1 DEF EmptyIndex
        <4>3. Starts(t, directory.tail)
          BY <2>2, <4>2 DEF Starts
        <4>4. t \o rest = directory.tail
          BY <1>2, <4>3, FetchedTail DEF rest
        <4>5. t = directory.tail
          BY <1>2, <2>2, <4>2, <4>3, StartsEqual
        <4>6. copy'.tail = copy.tail
          BY <2>5, <4>4, <4>5 DEF t
        <4>7. QED
          BY <2>5, <3>1, <4>6 DEF Kept, CopyOf
      <3>4. QED
        BY <3>2, <3>3
    <2>7. ASSUME NEW y \in Index, copy.id = y.id, Continues(copy, y)
          PROVE  copy'.id = y.id /\ Continues(copy', y)
      <3>1. y.base = copy.base /\ IsPrefix(y.tail, t) /\ y.tail \in Seq(Addr)
        BY <2>7 DEF Continues, Index, t
      <3>2. IsPrefix(y.tail, t \o rest)
        BY <1>2, <2>3, <3>1, PrefixConcat
      <3>3. QED
        BY <2>5, <2>7, <3>1, <3>2 DEF Continues
    <2>8. QED
      BY <2>5, <2>6, <2>7
  <1>5. QED
    BY <1>3, <1>4

(* What a row says of an address is a report. *)
LEMMA RowsAreTyped ==
    ASSUME TypeOK, NEW a \in Addr, NEW x \in Index, NEW row \in RowsAt(a, x)
    PROVE  Decode(row, a) \in Report
  <1> SUFFICES row.record \in Record
    BY Constants DEF Decode, Found, NotHeld, Report
  <1>1. served \in Served /\ served.tail \in Seq(Addr) /\ served.base \subseteq Addr
        /\ served.rows \in [Addr -> Record] /\ 0 \in Record
    BY Constants DEF TypeOK, Served
  <1>2. x.base \subseteq Addr /\ x.tail \in Seq(Addr)
    BY DEF Index
  <1>3. \A p \in 1..Len(served.tail) : served.tail[p] \in Addr
    BY <1>1, ElementOfSeq
  <1>4. Indexed(served) \subseteq Addr
    BY <1>1, <1>3 DEF Indexed, InTail
  <1>5. Vacant.record \in Record /\ \A b \in Addr : RowOf(b).record \in Record
    BY <1>1 DEF Vacant, RowOf
  <1>6. \A b \in Addr : \A r \in RowsOf(b) : r.record \in Record
    BY <1>5 DEF RowsOf
  <1>7. CASE x.id # served.id
    BY <1>4, <1>5, <1>7 DEF RowsAt
  <1>8. CASE x.id = served.id /\ a \in x.base
    BY <1>6, <1>8 DEF RowsAt
  <1>9. CASE x.id = served.id /\ a \notin x.base /\ a \in InTail(x)
    <2>1. PICK p \in {i \in 1..Len(x.tail) : x.tail[i] = a} : row \in RowAt(p)
      BY <1>9 DEF RowsAt
    <2>2. Len(served.tail) \in Nat /\ Len(x.tail) \in Nat
      BY <1>1, <1>2, LenProperties
    <2>3. p <= Len(served.tail) => p \in 1..Len(served.tail)
      BY <2>2
    <2>4. QED
      BY <1>3, <1>5, <1>6, <2>1, <2>3 DEF RowAt
  <1>10. CASE x.id = served.id /\ a \notin x.base /\ a \notin InTail(x)
    BY <1>1, <1>5, <1>10 DEF RowsAt
  <1>11. QED
    BY <1>7, <1>8, <1>9, <1>10

(* Unless its record is zero a row is its address's. *)
LEMMA OwnRow ==
    ASSUME NEW a \in Addr, NEW row \in RowsOf(a)
    PROVE  Decode(row, a).record = served.rows[a]
  BY LookupAssumption DEF RowsOf, RowOf, Vacant, Decode, InSet, Found, NotHeld

(* A slot of an exposed directory of the served hash has a row, and it is   *)
(* its address's, unless the last rebuild failed.                           *)
LEMMA ListedRow ==
    ASSUME LookupInv, inits <= 1, rebuilt, serving, NEW x \in Index, Kept(x),
           x.id = served.id, NEW a \in Indexed(x), NEW row \in RowsAt(a, x)
    PROVE  a \in Indexed(served) /\ Decode(row, a).record = served.rows[a]
  <1>1. /\ TypeOK /\ pc # "down" /\ TableInv /\ BuiltInv
        /\ \A e \in exposed : Continues(index, e)
    BY DEF LookupInv, FullInv, SlotInv, DirectoryInv
  <1>2. /\ Starts(served.tail, index.tail)
        /\ served.id = index.id /\ served.base = index.base
    BY <1>1 DEF TableInv
  <1>3. /\ x.base \subseteq Addr /\ x.tail \in Seq(Addr) /\ index.tail \in Seq(Addr)
        /\ served.tail \in Seq(Addr)
    BY <1>1 DEF TypeOK, Index, Served
  <1>4. PICK e \in exposed : CopyOf(x, e)
    BY DEF Kept
  <1>5. e.tail \in Seq(Addr) /\ Continues(index, e) /\ e.id = index.id /\ e.id = served.id
    BY <1>1, <1>2, <1>4 DEF TypeOK, Index, CopyOf
  <1>6. x.base = served.base /\ Starts(x.tail, e.tail) /\ Starts(e.tail, index.tail)
    BY <1>2, <1>3, <1>4, <1>5, StartsIsPrefix DEF Continues, CopyOf
  <1>7. Starts(x.tail, index.tail)
    BY <1>3, <1>5, <1>6, StartsTrans
  <1>8. Len(x.tail) <= Len(served.tail) /\ Len(x.tail) \in Nat /\ Len(served.tail) \in Nat
        /\ Len(index.tail) \in Nat
    <2>1. Len(e.tail) <= Len(served.tail)
      BY <1>1, <1>5 DEF BuiltInv
    <2>2. QED
      BY <1>3, <1>5, <1>6, <2>1, LenProperties DEF Starts
  <1>9. a \in Addr
    <2>1. \A i \in 1..Len(x.tail) : x.tail[i] \in Addr
      BY <1>3, ElementOfSeq
    <2>2. QED
      BY <1>3, <2>1 DEF Indexed, InTail
  <1>10. CASE a \in x.base
    <2>1. row \in RowsOf(a)
      BY <1>10 DEF RowsAt
    <2>2. QED
      BY <1>6, <1>9, <1>10, <2>1, OwnRow DEF Indexed
  <1>11. CASE a \notin x.base
    <2>1. a \in InTail(x)
      BY <1>11 DEF Indexed
    <2>2. PICK p \in 1..Len(x.tail) : x.tail[p] = a /\ row \in RowAt(p)
      BY <1>11, <2>1 DEF RowsAt
    <2>3. p \in 1..Len(served.tail) /\ p \in 1..Len(index.tail)
      BY <1>7, <1>8 DEF Starts
    <2>4. served.tail[p] = a
      BY <1>2, <1>7, <2>2, <2>3 DEF Starts
    <2>5. row \in RowsOf(a)
      BY <1>8, <2>2, <2>3, <2>4 DEF RowAt
    <2>6. QED
      BY <1>9, <2>3, <2>4, <2>5, OwnRow DEF Indexed, InTail
  <1>12. QED
    BY <1>10, <1>11

LEMMA EmptyQuery ==
    NoQuery \in [addr : Addr \cup {Nobody}, through : Index] /\ NoAnswer \in Report
  BY Constants DEF NoQuery, NoAnswer, NotHeld, Report

LEMMA ClientStep ==
    ASSUME LookupInv, Client, UNCHANGED vars
    PROVE  ClientInv'
  <1>1. ClientInv /\ LookupTypeOK /\ TypeOK
    BY DEF LookupInv, ClientInv, LookupTypeOK
  <1>2. UNCHANGED <<exposed, inits, directory>> /\ TypeOK'
    BY <1>1, TypeStep DEF vars, history
  <1>3. \A x : Kept(x) => \E e \in exposed' : CopyOf(x, e)
    BY <1>2 DEF Kept
  <1> DEFINE Kept1(x) == \E e \in exposed' : CopyOf(x, e)
             Goal == /\ copy' \in Index
                     /\ plan' \in {"idle", "full", "tail"}
                     /\ pending' \in [addr : Addr \cup {Nobody}, through : Index]
                     /\ answer' \in Report
                     /\ pending' # NoQuery =>
                           /\ pending'.addr \in Addr
                           /\ copy'.id = pending'.through.id
                           /\ Continues(copy', pending'.through)
                     /\ inits <= 1 => /\ copy'.id # Missing => Kept1(copy')
                                      /\ pending' # NoQuery => Kept1(pending'.through)
  <1>4. Goal => ClientInv'
    BY <1>2 DEF ClientInv, LookupTypeOK, QuerySlotStands, Continues, Kept, CopyOf, Starts,
                NoQuery, EmptyIndex, Report, Index, Record
  <1>5. /\ copy \in Index /\ plan \in {"idle", "full", "tail"}
        /\ pending \in [addr : Addr \cup {Nobody}, through : Index] /\ answer \in Report
        /\ pending # NoQuery => /\ pending.addr \in Addr
                                /\ copy.id = pending.through.id
                                /\ Continues(copy, pending.through)
        /\ inits <= 1 => /\ copy.id # Missing => Kept1(copy)
                         /\ pending # NoQuery => Kept1(pending.through)
    BY <1>1, <1>3 DEF ClientInv, LookupTypeOK, QuerySlotStands
  <1>6. CASE PlanSync
    BY <1>4, <1>5, <1>6 DEF PlanSync, SyncNeed
  <1>7. CASE FetchDirectory
    <2>1. CASE directory.id = Missing
      BY <1>4, <1>5, <1>7, <2>1 DEF FetchDirectory
    <2>2. CASE directory.id # Missing
      <3>1. copy' = directory /\ pending' = NoQuery /\ plan' = "idle" /\ answer' = answer
        BY <1>7, <2>2 DEF FetchDirectory
      <3>2. directory \in exposed /\ directory \in Index
        BY <1>1, <2>2 DEF LookupInv, DirectoryInv, EmptyIndex, TypeOK
      <3>3. CopyOf(directory, directory)
        BY <3>2, StartsRefl DEF CopyOf, Index
      <3>4. Kept1(copy')
        BY <1>2, <3>1, <3>2, <3>3
      <3>5. QED
        BY <1>4, <1>5, <3>1, <3>2, <3>4, EmptyQuery
    <2>3. QED
      BY <2>1, <2>2
  <1>8. CASE FetchTail
    <2>1. /\ copy' \in Index
          /\ inits <= 1 /\ copy'.id # Missing => Kept(copy')
          /\ \A y \in Index : copy.id = y.id /\ Continues(copy, y)
                              => copy'.id = y.id /\ Continues(copy', y)
      BY <1>8, FetchedCopy
    <2>2. plan' = "idle" /\ UNCHANGED <<pending, answer>>
      BY <1>8 DEF FetchTail
    <2>3. inits <= 1 /\ copy'.id # Missing => Kept1(copy')
      BY <1>3, <2>1
    <2>4. pending # NoQuery => /\ copy'.id = pending.through.id
                               /\ Continues(copy', pending.through)
      BY <1>5, <2>1
    <2>5. QED
      BY <1>4, <1>5, <2>1, <2>2, <2>3, <2>4
  <1>9. CASE RequestFails
    BY <1>4, <1>5, <1>9, EmptyQuery DEF RequestFails
  <1>10. CASE Ask
    <2>1. PICK a \in Addr : pending' = [addr |-> a, through |-> copy]
      BY <1>10 DEF Ask
    <2>2. copy.id # Missing /\ answer' = NoAnswer /\ UNCHANGED <<copy, plan>>
      BY <1>10 DEF Ask
    <2>3. /\ pending'.addr = a /\ pending'.through = copy
          /\ pending' \in [addr : Addr \cup {Nobody}, through : Index]
      BY <1>5, <2>1
    <2>4. Continues(copy, copy)
      BY <1>5, PrefixRefl DEF Continues, Index
    <2>5. QED
      BY <1>4, <1>5, <2>2, <2>3, <2>4, EmptyQuery
  <1>11. CASE Respond
    <2>1. PICK row \in RowsAt(pending.addr, pending.through) :
            answer' = Decode(row, pending.addr)
      BY <1>11 DEF Respond
    <2>2. pending.addr \in Addr /\ pending.through \in Index
      BY <1>5, <1>11 DEF Respond
    <2>3. answer' \in Report
      BY <1>1, <2>1, <2>2, RowsAreTyped
    <2>4. pending' = NoQuery /\ UNCHANGED <<copy, plan>>
      BY <1>11 DEF Respond
    <2>5. QED
      BY <1>4, <1>5, <2>3, <2>4, EmptyQuery
  <1>12. QED
    BY <1>6, <1>7, <1>8, <1>9, <1>10, <1>11 DEF Client

-------------------------------------------------------------------------------
(* The inductive invariant.                                                 *)

LEMMA LookupInitInv == LookupInit => LookupInv
  <1> SUFFICES ASSUME LookupInit PROVE LookupInv
    OBVIOUS
  <1>1. Init /\ ClientInit
    BY DEF LookupInit
  <1>2. SlotInv /\ TypeOK
    BY <1>1, SlotInit DEF SlotInv
  <1>3. VersionInv
    BY <1>1 DEF Init, VersionInv, NothingYet, Ordered, Restorable, EmptyIndex, Missing
  <1>4. DirectoryInv
    BY <1>1 DEF Init, DirectoryInv
  <1>5. TableInv
    BY <1>1 DEF Init, TableInv
  <1>6. ClientInv
    <2>1. copy = EmptyIndex /\ plan = "idle" /\ pending = NoQuery /\ answer = NoAnswer
      BY <1>1 DEF ClientInit
    <2>2. copy.id = Missing
      BY <2>1 DEF EmptyIndex
    <2>3. QED
      BY <1>2, <2>1, <2>2, Constants, EmptyQuery
      DEF ClientInv, LookupTypeOK, QuerySlotStands
  <1>7. RebuiltInv
    BY <1>1, RebuiltInit
  <1>8. BuiltInv
    BY <1>1 DEF Init, BuiltInv
  <1>9. QED
    BY <1>2, <1>3, <1>4, <1>5, <1>6, <1>7, <1>8 DEF LookupInv, FullInv

LEMMA LookupStep ==
    ASSUME LookupInv, [LookupNext]_lookupVars
    PROVE  LookupInv'
  <1>1. [Next]_vars
    BY DEF LookupNext, lookupVars
  <1>2. FullInv' /\ RebuiltInv' /\ DirectoryInv' /\ TableInv'
    BY <1>1, SlotStep, OrderedStep, NothingYetStep, RebuiltStep, DirectoryStep, TableStep
    DEF LookupInv, FullInv, VersionInv
  <1>3. BuiltInv'
    BY <1>1, <1>2, BuiltStep DEF LookupInv
  <1>4. CASE UNCHANGED clientVars
    BY <1>1, <1>2, <1>3, <1>4, ServerKeepsClient DEF LookupInv
  <1>5. CASE Client /\ UNCHANGED vars
    BY <1>2, <1>3, <1>5, ClientStep DEF LookupInv
  <1>6. QED
    BY <1>4, <1>5 DEF LookupNext, lookupVars

LEMMA LookupInvariant == LookupSpec => []LookupInv
  BY LookupInitInv, LookupStep, PTL DEF LookupSpec

(* The server's variables and the client's keep their types, whatever of    *)
(* the one the other reads, and when.                                       *)
THEOREM LookupTypes == LookupSpec => []LookupTypeOK
  <1>1. LookupInv => LookupTypeOK
    BY DEF LookupInv, ClientInv
  <1>2. QED
    BY <1>1, LookupInvariant, PTL

(* As long as the server has made no second fresh start, a client told that *)
(* it is current has the very directory that is served: a version and a     *)
(* length are enough to go by, whatever was compacted, failed or restarted  *)
(* between the requests its copy was put together from.                     *)
THEOREM LookupCurrentMeansCurrent == LookupSpec => []CurrentMeansCurrent
  <1>1. LookupInv => CurrentMeansCurrent
    <2> SUFFICES ASSUME LookupInv, inits <= 1, ToldCurrent
                 PROVE  copy = directory
      BY DEF CurrentMeansCurrent
    <2>1. /\ copy.id # Missing /\ directory.id # Missing
          /\ directory.version = copy.version
          /\ ~(Len(directory.tail) > Len(copy.tail))
      BY DEF ToldCurrent, SyncNeed
    <2>2. copy \in Index /\ directory \in Index /\ Kept(copy)
      BY <2>1 DEF LookupInv, ClientInv, LookupTypeOK, TypeOK
    <2>3. /\ copy.id = directory.id /\ copy.base = directory.base
          /\ Starts(copy.tail, directory.tail)
      BY <2>1, <2>2, CopyAgrees
    <2>4. copy.tail \in Seq(Addr) /\ directory.tail \in Seq(Addr)
      BY <2>2 DEF Index
    <2>5. Len(directory.tail) <= Len(copy.tail)
      BY <2>1, <2>4, LenProperties
    <2>6. copy.tail = directory.tail
      BY <2>3, <2>4, <2>5, StartsEqual
    <2>7. QED
      BY <2>1, <2>2, <2>3, <2>6 DEF Index
  <1>2. QED
    BY <1>1, LookupInvariant, PTL

(* Only a response reports a record.                                        *)
LEMMA OnlyResponds ==
    ASSUME LookupNext, Answered
    PROVE  Respond /\ UNCHANGED vars
  BY DEF LookupNext, Client, PlanSync, FetchDirectory, FetchTail, RequestFails, Ask, Answered,
         clientVars

(* A sync that overlaps a lookup never pulls the slot from under it: it     *)
(* drops the query when it replaces the hash, and a tail moves no slot.     *)
THEOREM LookupQuerySlotStands == LookupSpec => []QuerySlotStands
  <1>1. LookupInv => QuerySlotStands
    BY DEF LookupInv, ClientInv
  <1>2. QED
    BY <1>1, LookupInvariant, PTL

(* An address the client's directory lists has a row, and its lookup reads  *)
(* that row, although the copy it went by is one the server has long        *)
(* outgrown: as long as the last rebuild did not fail, both are of one hash *)
(* and there was no second fresh start.                                     *)
THEOREM LookupListedIsFound == LookupSpec => ListedIsFound
  <1> DEFINE Listed == Answered /\ rebuilt /\ pending.through.id = served.id /\ inits <= 1
                         /\ pending.addr \in Indexed(pending.through)
                         => /\ pending.addr \in Indexed(served)
                            /\ answer'.record = served.rows[pending.addr]
  <1>1. LookupInv /\ [LookupNext]_lookupVars => [Listed]_lookupVars
    <2> SUFFICES ASSUME LookupInv, LookupNext, Answered, rebuilt, inits <= 1,
                        pending.through.id = served.id,
                        pending.addr \in Indexed(pending.through)
                 PROVE  /\ pending.addr \in Indexed(served)
                        /\ answer'.record = served.rows[pending.addr]
      BY DEF Listed
    <2>1. Respond
      BY OnlyResponds
    <2>2. PICK row \in RowsAt(pending.addr, pending.through) :
            answer' = Decode(row, pending.addr)
      BY <2>1 DEF Respond
    <2>3. pending.through \in Index /\ Kept(pending.through) /\ serving
      BY <2>1 DEF Respond, LookupInv, ClientInv, LookupTypeOK
    <2>4. /\ pending.addr \in Indexed(served)
          /\ Decode(row, pending.addr).record = served.rows[pending.addr]
      BY <2>2, <2>3, ListedRow
    <2>5. QED
      BY <2>2, <2>4
  <1>2. QED
    BY <1>1, LookupInvariant, PTL DEF LookupSpec, ListedIsFound
===============================================================================

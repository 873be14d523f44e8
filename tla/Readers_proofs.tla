---------------------------- MODULE Readers_proofs ----------------------------
(***************************************************************************)
(* Theorems about Readers for every output, every reader and every size of *)
(* the buffers.                                                            *)
(***************************************************************************)
EXTENDS Readers, SequenceTheorems, FiniteSetTheorems, TLAPS

-----------------------------------------------------------------------------
(* Constants.                                                              *)

\* What the constants are.
LEMMA Outlines ==
  /\ \A d \in Outputs : d \in Seq(Line) /\ Len(d) \in Nat /\ Bytes(d) \in Nat
  /\ \A d \in Outputs : \A k \in 1..Len(d) : d[k] \in Line
  /\ \A k \in Kinds : Size[k] \in Nat \ {0}
  /\ BufSize \in Nat /\ BufSize >= 2 /\ OutputLen \in Nat /\ OutputLen >= 2
  BY ReadersAssumption, LengthAssumption

\* A line has a kind, a name and a value.
LEMMA LineFields ==
  ASSUME NEW l \in Line
  PROVE  l.kind \in Kinds /\ l.name \in Names /\ l.val \in Vals
  BY DEF Line

\* What is done with a reader's fields needs their types only.
LEMMA ReaderFields ==
  ASSUME NEW r \in Reader
  PROVE  /\ r.buffer \in {"grows", "fixed"} /\ r.output \in {"rows", "blocks", "items"}
         /\ r.skips \in BOOLEAN /\ r.defers \in BOOLEAN
         /\ r.wanted \in SUBSET Names /\ r.room \in SUBSET Nat
         /\ r.offers \in {<<>>, <<NoBlock>>}
  BY DEF Reader

\* An entry is a name and values; no block is one.
LEMMA Entries ==
  /\ NoBlock \in Entry /\ NoBlock.name = Template /\ NoBlock.vals = {}
  /\ \A e \in Entry : e.name \in Names \cup {Template} /\ e.vals \in SUBSET Vals
  /\ \A n \in Names, V \in SUBSET Vals : [name |-> n, vals |-> V] \in Entry
  /\ \A e \in Entry, V \in SUBSET Vals : [e EXCEPT !.vals = @ \cup V] \in Entry
  BY DEF Entry, NoBlock

\* What is offered besides is a sequence of entries, of at most one.
LEMMA OffersType == \A o \in {<<>>, <<NoBlock>>} : o \in Seq(Entry)
<1>1. <<>> \in Seq(Entry) /\ NoBlock \in Entry
  BY Entries, EmptySeq
<1>2. Append(<<>>, NoBlock) \in Seq(Entry)
  BY <1>1, AppendProperties
<1>3. <<NoBlock>> = Append(<<>>, NoBlock)
  OBVIOUS
<1>4. <<NoBlock>> \in Seq(Entry)
  BY <1>2, <1>3
<1> QED
  BY <1>1, <1>4

\* Every reader of the program is a Reader.
LEMMA ReadersAreReaders == Readers \subseteq Reader
<1>1. \A o \in {"rows", "blocks", "items"}, d \in BOOLEAN :
        Show(o, d) \in Reader
  BY DEF Show, Reader
<1>2. \A o \in {"rows", "blocks", "items"}, s \in BOOLEAN, R \in SUBSET Nat :
        Api(o, s, R) \in Reader
  BY DEF Api, Reader
<1>3. GetBonds \in Reader /\ GetLcps \in Reader
  BY <1>2, ReadersAssumption DEF GetBonds, GetLcps
<1>4. GetInterfaces \in Reader /\ ParseShowInterface \in Reader
  BY <1>2, ReadersAssumption DEF GetInterfaces, ParseShowInterface
<1>5. /\ CliShowInterfaces \in Reader /\ CliShowInterfacesBrief \in Reader
      /\ CliShowBond \in Reader /\ CliShowLcp \in Reader
  BY <1>1 DEF CliShowInterfaces, CliShowInterfacesBrief, CliShowBond, CliShowLcp
<1>6. \A W \in SUBSET Names, o \in {"rows", "blocks", "items"}, d \in BOOLEAN :
        [Show(o, d) EXCEPT !.wanted = W] \in Reader
  BY <1>1 DEF Reader
<1>7. \A W \in Lists : SyncMembers(W) \in Reader
  BY <1>6, ReadersAssumption DEF SyncMembers
<1>8. \A n \in Names : CliShowInterfaceDetail(n) \in Reader
  BY <1>6 DEF CliShowInterfaceDetail
<1>9. \A C : Completion(C) \in Reader
  <2>1. \A C : OfClass(C) \in SUBSET Names
    BY DEF OfClass
  <2> QED
    BY <1>1, <2>1 DEF Completion, Reader
<1>10. CliExpandBonds \in Reader
  BY <1>9 DEF CliExpandBonds, Reader
<1>11. /\ CliExpandInterfaces \in Reader /\ CliExpandEthernet \in Reader
       /\ CliExpandLoopback \in Reader /\ CliExpandSubifs \in Reader
       /\ CliExpandParents \in Reader
  BY <1>9 DEF CliExpandInterfaces, CliExpandEthernet, CliExpandLoopback,
              CliExpandSubifs, CliExpandParents
<1>12. /\ SyncInterfaces \in Reader /\ SyncBondsFallback \in Reader
       /\ SyncLcpsFallback \in Reader
  BY <1>1, <1>9 DEF SyncInterfaces, SyncBondsFallback, SyncLcpsFallback
<1>13. \A n \in Names : SyncAddresses(n) \in Reader /\ SyncMtu(n) \in Reader
  <2>1. \A n \in Names : SyncAddresses(n) \in Reader
    BY <1>6 DEF SyncAddresses
  <2>2. {1} \in SUBSET Nat
    OBVIOUS
  <2> QED
    BY <2>1, <2>2 DEF SyncMtu, Reader
<1> QED
  BY <1>3, <1>4, <1>5, <1>7, <1>8, <1>10, <1>11, <1>12, <1>13 DEF Readers

-----------------------------------------------------------------------------
(* Types.                                                                  *)

\* Adding to the values of an entry ...
Added(s, k, v) == [s EXCEPT ![k].vals = @ \cup {v}]

\* ... leaves a sequence of entries one.
LEMMA ValuesAdded ==
  ASSUME NEW s \in Seq(Entry), NEW k \in Nat, NEW v \in Vals
  PROVE  /\ Added(s, k, v) \in Seq(Entry) /\ Len(Added(s, k, v)) = Len(s)
         /\ \A n \in 1..Len(s) :
              Added(s, k, v)[n] = IF n = k THEN [s[n] EXCEPT !.vals = @ \cup {v}] ELSE s[n]
<1>1. CASE k \in 1..Len(s)
  <2> DEFINE e == [s[k] EXCEPT !.vals = @ \cup {v}]
  <2>1. s[k] \in Entry
    BY <1>1, ElementOfSeq
  <2>2. e \in Entry
    BY <2>1, Entries
  <2>3. Added(s, k, v) = [s EXCEPT ![k] = e]
    BY DEF Added
  <2>4. /\ [s EXCEPT ![k] = e] \in Seq(Entry)
        /\ Len([s EXCEPT ![k] = e]) = Len(s)
        /\ \A n \in 1..Len(s) : [s EXCEPT ![k] = e][n] = IF n = k THEN e ELSE s[n]
    <3> HIDE DEF e
    <3> QED
      BY <1>1, <2>2, ExceptSeq
  <2> QED
    BY <2>3, <2>4
<1>2. CASE k \notin 1..Len(s)
  <2>1. Added(s, k, v) = s
    BY <1>2, LenProperties DEF Added
  <2> QED
    BY <1>2, <2>1
<1> QED
  BY <1>1, <1>2

\* Nothing but types.
THEOREM ReadersTypeCorrect == Spec => []TypeOK
<1>1. Init => TypeOK
  <2> SUFFICES ASSUME Init PROVE TypeOK
    OBVIOUS
  <2>1. reader \in Reader
    BY ReadersAreReaders DEF Init
  <2>2. <<>> \in Seq(Line) /\ <<>> \in Seq(Entry)
    BY EmptySeq
  <2> QED
    BY <2>1, <2>2, Outlines, Entries DEF Init, TypeOK
<1>2. TypeOK /\ [Next]_vars => TypeOK'
  <2> SUFFICES ASSUME TypeOK, [Next]_vars PROVE TypeOK'
    OBVIOUS
  <2> USE DEF TypeOK
  <2>0. /\ Len(text) \in Nat /\ Len(printed) \in Nat /\ Bytes(printed) \in Nat
        /\ \A k \in 1..Len(text) : text[k] \in Line
        /\ \A k \in 1..Len(printed) : printed[k] \in Line
        /\ printed \in Seq(Line) /\ <<>> \in Seq(Line)
    BY Outlines, ElementOfSeq, LenProperties, EmptySeq
  <2>1. ASSUME StartParsing PROVE phase' = "parse" /\ at' \in Nat \ {0}
    BY <2>1 DEF StartParsing
  <2>2. CASE ReadChunk
    <3>1. used' \in Nat /\ size' \in Nat
      BY <2>2, <2>0 DEF ReadChunk, Shorter
    <3>2. text' \in Seq(Line)
      BY <2>2, <2>0 DEF ReadChunk
    <3>3. phase' \in {"read", "parse"} /\ at' \in Nat \ {0} /\ next' = next
      BY <2>2, <2>1 DEF ReadChunk, KeepReading
    <3>4. UNCHANGED <<job, block, result>>
      BY <2>2 DEF ReadChunk, KeepReading, StartParsing
    <3> QED
      BY <3>1, <3>2, <3>3, <3>4 DEF job
  <2>3. CASE ReadPiece
    <3>1. Fits(printed[next]) => used + Size[printed[next].kind] \in Nat
      BY <2>3, <2>0, LineFields, Outlines DEF ReadPiece
    <3>2. text' \in Seq(Line)
      <4>1. printed[next] \in Line
        BY <2>3, <2>0 DEF ReadPiece
      <4>2. Append(text, printed[next]) \in Seq(Line)
        BY <4>1, AppendProperties
      <4> QED
        BY <2>3, <4>2 DEF ReadPiece
    <3> QED
      BY <2>3, <2>0, <3>1, <3>2 DEF ReadPiece, KeepReading, job
  <2>4. CASE LastPiece
    BY <2>4, <2>1 DEF LastPiece, StartParsing, buffer, job
  <2>5. CASE ReadFails
    <3>1. reader.offers \in Seq(Entry)
      BY ReaderFields, OffersType
    <3> QED
      BY <2>5, <2>0, <3>1 DEF ReadFails, job
  <2>6. ASSUME NEW K \in SUBSET Kinds, Look(K)
        PROVE  /\ at' \in Nat \ {0} /\ UNCHANGED <<job, phase, buffer>>
               /\ at \in 1..Len(text) /\ text[at].name \in Names
               /\ text[at].val \in Vals
    <3>1. at \in 1..Len(text)
      BY <2>6, <2>0 DEF Look
    <3> QED
      BY <3>1, <2>6, <2>0, LineFields DEF Look
  <2>7. CASE ReadRow
    <3>1. Look(Kinds)
      BY <2>7 DEF ReadRow
    <3>2. result' \in Seq(Entry)
      BY <2>7, <2>6, <3>1, Entries, AppendProperties DEF ReadRow
    <3> QED
      BY <2>7, <2>6, <3>1, <3>2 DEF ReadRow, job, buffer
  <2>8. CASE ReadHead
    <3>1. Look({"head"}) /\ {"head"} \in SUBSET Kinds
      BY <2>8 DEF ReadHead, Kinds
    <3>2. [name |-> text[at].name, vals |-> {}] \in Entry
      BY <2>6, <3>1, Entries
    <3>3. block' \in Entry /\ result' \in Seq(Entry)
      BY <2>8, <3>2, Entries, AppendProperties DEF ReadHead
    <3> QED
      BY <2>6, <3>1, <3>3 DEF job, buffer
  <2>9. CASE ReadItem
    <3>1. Look({"item"}) /\ {"item"} \in SUBSET Kinds
      BY <2>9 DEF ReadItem, Kinds
    <3>2. text[at].val \in Vals /\ Len(result) \in Nat
      BY <2>6, <3>1, LenProperties
    <3>3. Added(result, Len(result), text[at].val) \in Seq(Entry)
      BY <3>2, ValuesAdded
    <3>4. [block EXCEPT !.vals = @ \cup {text[at].val}] \in Entry
      BY <3>2, Entries
    <3>5. block' \in Entry /\ result' \in Seq(Entry)
      BY <2>9, <3>3, <3>4 DEF ReadItem, Added
    <3> QED
      BY <2>6, <3>1, <3>5 DEF job, buffer
  <2>10. CASE ReadAnyItem
    <3>1. Look(Kinds)
      BY <2>10 DEF ReadAnyItem
    <3>2. \A n \in reader.wanted : [name |-> n, vals |-> {text[at].val}] \in Entry
      BY <2>6, <3>1, Entries, ReaderFields
    <3>3. result' \in Seq(Entry)
      BY <2>10, <3>2, AppendProperties DEF ReadAnyItem
    <3> QED
      BY <2>10, <2>6, <3>1, <3>3 DEF ReadAnyItem, job, buffer
  <2>11. CASE SkipLine
    <3>1. Look(Kinds \ {"head", "item"}) /\ Kinds \ {"head", "item"} \in SUBSET Kinds
      BY <2>11 DEF SkipLine
    <3> QED
      BY <2>11, <2>6, <3>1 DEF SkipLine, job, buffer
  <2>12. CASE Finish
    <3>1. result \o reader.offers \in Seq(Entry)
      <4>1. reader.offers \in Seq(Entry)
        BY ReaderFields, OffersType
      <4> QED
        BY <4>1, ConcatProperties
    <3>2. Append(result, block) \in Seq(Entry)
      BY AppendProperties
    <3> QED
      BY <2>12, <3>1, <3>2 DEF Finish, job, buffer
  <2>13. CASE UNCHANGED vars
    BY <2>13 DEF vars, job, buffer
  <2> QED
    BY <2>2, <2>3, <2>4, <2>5, <2>7, <2>8, <2>9, <2>10, <2>11, <2>12, <2>13 DEF Next
<1> QED
  BY <1>1, <1>2, PTL DEF Spec

-----------------------------------------------------------------------------
(* The buffers.                                                            *)

\* A buffer that grows has room for the zero and one byte more whenever fread is
\* called; the fixed one is never filled to its end.
BufferSafe ==
  IF reader.buffer = "grows" THEN used < size - 1 ELSE used < OutputLen

\* Nothing is left out of a whole output that fits: as long as it is read, the
\* lines so far are in the buffer, and its bytes are theirs.
Collected ==
  /\ phase = "read" /\ reader.buffer = "grows" => used <= Bytes(printed)
  /\ phase = "read" /\ reader.buffer = "fixed" =>
       /\ next <= Len(printed) + 1
       /\ Bytes(printed) < OutputLen - 1 =>
            /\ text = Upto(printed, next - 1)
            /\ used = Bytes(Upto(printed, next - 1))
  /\ NothingCutNeedlessly

\* The outputs grow line by line.
LEMMA UptoGrows ==
  ASSUME NEW d \in Outputs, NEW k \in 1..Len(d)
  PROVE  /\ Append(Upto(d, k - 1), d[k]) = Upto(d, k)
         /\ Bytes(Upto(d, k)) = Bytes(Upto(d, k - 1)) + Size[d[k].kind]
         /\ Bytes(Upto(d, k)) <= Bytes(d)
<1>1. d \in Seq(Line) /\ Len(d) \in Nat /\ \A j \in 1..Len(d) : d[j] \in Line
  BY Outlines
<1>2. Upto(d, k) = Upto(d, k - 1) \o <<d[k]>>
  BY <1>1, SubSeqRecursiveSecond DEF Upto
<1>3. Upto(d, k - 1) \in Seq(Line)
  BY <1>1, SubSeqProperties DEF Upto
<1>4. Append(Upto(d, k - 1), d[k]) = Upto(d, k - 1) \o <<d[k]>>
  BY <1>1, <1>3, AppendIsConcat
<1> QED
  BY <1>2, <1>4, LengthAssumption

\* The beginning and the end of an output.
LEMMA UptoEnds ==
  ASSUME NEW d \in Outputs
  PROVE  Upto(d, 0) = <<>> /\ Bytes(Upto(d, 0)) = 0 /\ Upto(d, Len(d)) = d
<1>1. d \in Seq(Line)
  BY Outlines
<1> QED
  BY <1>1, SubSeqEmpty, SubSeqFull, LengthAssumption DEF Upto

\* One call of fread, whatever it returns.
LEMMA ChunkSafe ==
  ASSUME TypeOK, BufferSafe, Collected, ReadChunk
  PROVE  BufferSafe' /\ Collected'
<1>1. /\ used \in Nat /\ size \in Nat /\ Bytes(printed) \in Nat
      /\ phase = "read" /\ reader.buffer = "grows"
      /\ used < size - 1 /\ used <= Bytes(printed)
  BY Outlines DEF TypeOK, BufferSafe, Collected, ReadChunk
<1>2. reader' = reader /\ printed' = printed
  BY DEF ReadChunk, KeepReading, StartParsing, job
<1> DEFINE n == Shorter(size - used - 1, Bytes(printed) - used)
<1>3. CASE n > 0 /\ phase' = "read"
  <2>1. used' = used + n /\ size' = IF used' >= size - 1 THEN 2 * size ELSE size
    BY <1>3 DEF ReadChunk, StartParsing
  <2>2. used' <= size - 1 /\ used' <= Bytes(printed) /\ used' \in Nat
    BY <1>1, <1>3, <2>1 DEF Shorter
  <2>3. used' < size' - 1
    BY <1>1, <2>1, <2>2
  <2> QED
    BY <1>1, <1>2, <1>3, <2>2, <2>3 DEF BufferSafe, Collected, NothingCutNeedlessly
<1>4. CASE n = 0 /\ phase' = "parse"
  <2>1. used = Bytes(printed)
    BY <1>1, <1>4 DEF Shorter
  <2>2. text' = printed /\ used' = used /\ size' = size
    BY <1>4, <2>1 DEF ReadChunk
  <2> QED
    BY <1>1, <1>2, <1>4, <2>2 DEF BufferSafe, Collected, NothingCutNeedlessly
<1>5. (n > 0 /\ phase' = "read") \/ (n = 0 /\ phase' = "parse")
  BY <1>1 DEF ReadChunk, KeepReading, StartParsing
<1> QED
  BY <1>3, <1>4, <1>5

\* One piece of fgets.
LEMMA PieceSafe ==
  ASSUME TypeOK, BufferSafe, Collected, ReadPiece
  PROVE  BufferSafe' /\ Collected'
<1>1. /\ phase = "read" /\ reader.buffer = "fixed" /\ reader.buffer # "grows"
      /\ printed \in Outputs /\ next \in 1..Len(printed) /\ next' = next + 1
      /\ used \in Nat /\ OutputLen \in Nat /\ Len(printed) \in Nat
      /\ Bytes(printed) \in Nat
      /\ reader' = reader /\ printed' = printed /\ phase' = "read"
  BY Outlines DEF TypeOK, ReadPiece, KeepReading, job
<1>2. Size[printed[next].kind] \in Nat
  <2>1. printed[next] \in Line
    BY <1>1, Outlines
  <2> QED
    BY <2>1, Outlines, LineFields
<1>3. used' < OutputLen
  BY <1>1, <1>2 DEF BufferSafe, ReadPiece, Fits
<1>4. ASSUME Bytes(printed) < OutputLen - 1
      PROVE  text' = Upto(printed, next) /\ used' = Bytes(Upto(printed, next))
  <2>1. text = Upto(printed, next - 1) /\ used = Bytes(Upto(printed, next - 1))
    BY <1>1, <1>4 DEF Collected
  <2>2. used + Size[printed[next].kind] <= Bytes(printed)
    BY <1>1, <2>1, UptoGrows
  <2>3. Fits(printed[next])
    BY <1>1, <1>2, <1>4, <2>2 DEF Fits
  <2> QED
    BY <1>1, <2>1, <2>3, UptoGrows DEF ReadPiece
<1>5. next' - 1 = next /\ next' <= Len(printed) + 1
  BY <1>1
<1> QED
  BY <1>1, <1>3, <1>4, <1>5 DEF BufferSafe, Collected, NothingCutNeedlessly

\* Neither buffer is ever overrun, and an output that fits arrives whole.
THEOREM BuffersHold == Spec => [](BufferBounds /\ NothingCutNeedlessly)
<1>1. Init => BufferSafe /\ Collected
  <2> SUFFICES ASSUME Init PROVE BufferSafe /\ Collected
    OBVIOUS
  <2>1. printed \in Outputs /\ phase = "read" /\ next = 1 /\ used = 0 /\ text = <<>>
        /\ size = BufSize
    BY DEF Init
  <2> QED
    BY <2>1, UptoEnds, Outlines DEF BufferSafe, Collected, NothingCutNeedlessly
<1>2. TypeOK /\ BufferSafe /\ Collected /\ [Next]_vars => BufferSafe' /\ Collected'
  <2> SUFFICES ASSUME TypeOK, BufferSafe, Collected, [Next]_vars
               PROVE  BufferSafe' /\ Collected'
    OBVIOUS
  <2>1. CASE ReadChunk
    BY <2>1, ChunkSafe
  <2>2. CASE ReadPiece
    BY <2>2, PieceSafe
  <2>3. CASE LastPiece
    <3>1. /\ phase = "read" /\ reader.buffer = "fixed" /\ phase' = "parse"
          /\ UNCHANGED <<reader, printed, next, size, used, text>>
      BY <2>3 DEF LastPiece, StartParsing, buffer, job
    <3>2. printed \in Outputs /\ next - 1 = Len(printed)
      BY <2>3, <3>1, Outlines DEF LastPiece, Collected, TypeOK
    <3>3. Bytes(printed) < OutputLen - 1 => text = printed
      BY <3>1, <3>2, UptoEnds DEF Collected
    <3> QED
      BY <3>1, <3>3 DEF BufferSafe, Collected, NothingCutNeedlessly
  <2>4. CASE ReadFails
    BY <2>4 DEF ReadFails, job, BufferSafe, Collected, NothingCutNeedlessly
  <2>5. ASSUME NEW K, Look(K)
        PROVE  /\ phase = "parse" /\ phase' = "parse"
               /\ UNCHANGED <<reader, printed, next, size, used, text>>
    BY <2>5 DEF Look, job, buffer
  <2>6. ASSUME phase = "parse", phase' \in {"parse", "done"},
               UNCHANGED <<reader, printed, next, size, used, text>>
        PROVE  BufferSafe' /\ Collected'
    BY <2>6 DEF BufferSafe, Collected, NothingCutNeedlessly
  <2>7. CASE ReadRow \/ ReadHead \/ ReadItem \/ ReadAnyItem \/ SkipLine
    BY <2>5, <2>6, <2>7 DEF ReadRow, ReadHead, ReadItem, ReadAnyItem, SkipLine
  <2>8. CASE Finish
    BY <2>6, <2>8 DEF Finish, job, buffer
  <2>9. CASE UNCHANGED vars
    BY <2>9 DEF vars, job, buffer, BufferSafe, Collected, NothingCutNeedlessly
  <2> QED
    BY <2>1, <2>2, <2>3, <2>4, <2>7, <2>8, <2>9 DEF Next
<1>3. TypeOK /\ BufferSafe /\ Collected => BufferBounds /\ NothingCutNeedlessly
  BY DEF TypeOK, BufferSafe, Collected, BufferBounds
<1> QED
  BY <1>1, <1>2, <1>3, ReadersTypeCorrect, PTL DEF Spec

\* The second of the two by itself: what is taken apart is the output, if it fits.
THEOREM NothingEverCutNeedlessly == Spec => []NothingCutNeedlessly
<1>1. BufferBounds /\ NothingCutNeedlessly => NothingCutNeedlessly
  OBVIOUS
<1> QED
  BY <1>1, BuffersHold, PTL

-----------------------------------------------------------------------------
(* What is found.                                                          *)

\* The names and the values an output has.
NamePrinted(n) ==
  \/ reader.output = "items" /\ n \in reader.wanted
  \/ \E k \in 1..Len(printed) : printed[k].name = n /\ printed[k].kind \in {"row", "head"}

Values == {printed[k].val : k \in 1..Len(printed)}

\* What is offered besides is added when all is over.
Genuine(e, over) ==
  \/ over /\ e = NoBlock /\ reader.offers # <<>>
  \/ NamePrinted(e.name) /\ e.vals \subseteq Values

\* The lines in the buffer were printed, the open block too if there is one, and
\* what has been found is genuine.
FromPrinted ==
  /\ \A k \in 1..Len(text) : \E j \in 1..Len(printed) : text[k] = printed[j]
  /\ block.name # Template => NamePrinted(block.name)
  /\ block.vals \subseteq Values
  /\ \A k \in 1..Len(result) : Genuine(result[k], phase = "done")

\* A name, a value and a kind that are looked at were printed together.
LEMMA LookedAt ==
  ASSUME TypeOK, FromPrinted, NEW K \in SUBSET Kinds, Look(K)
  PROVE  /\ text[at].kind \in K /\ text[at].val \in Values
         /\ text[at].kind \in {"row", "head"} => NamePrinted(text[at].name)
         /\ text' = text /\ reader' = reader /\ printed' = printed
         /\ phase = "parse" /\ phase' = "parse"
<1>1. at \in 1..Len(text) /\ Len(text) \in Nat
  BY LenProperties DEF TypeOK, Look
<1>2. PICK j \in 1..Len(printed) : text[at] = printed[j]
  BY <1>1 DEF FromPrinted
<1> QED
  BY <1>2 DEF Look, Values, NamePrinted, job, buffer

\* Adding a genuine entry leaves all entries genuine.
LEMMA AppendGenuine ==
  ASSUME NEW s \in Seq(Entry), NEW e \in Entry, NEW over \in BOOLEAN,
         \A k \in 1..Len(s) : Genuine(s[k], over), Genuine(e, over)
  PROVE  \A k \in 1..Len(Append(s, e)) : Genuine(Append(s, e)[k], over)
<1>1. /\ Len(Append(s, e)) = Len(s) + 1 /\ Len(s) \in Nat
      /\ \A k \in 1..Len(s) : Append(s, e)[k] = s[k]
      /\ Append(s, e)[Len(s) + 1] = e
  BY AppendProperties, LenProperties
<1>2. \A k \in 1..(Len(s) + 1) : k \in 1..Len(s) \/ k = Len(s) + 1
  BY <1>1
<1> QED
  BY <1>1, <1>2

\* Lines are read into nothing else.
LEMMA LinesRead ==
  ASSUME TypeOK, FromPrinted, UNCHANGED <<reader, printed, block>>, result' = result,
         phase # "done", phase' # "done",
         \A k \in 1..Len(text') : \E j \in 1..Len(printed) : text'[k] = printed[j]
  PROVE  FromPrinted'
  BY DEF FromPrinted, Genuine, NamePrinted, Values

\* Whatever happens to block and result, if they are genuine so is the state.
LEMMA BlockRead ==
  ASSUME TypeOK, FromPrinted, UNCHANGED <<reader, printed, text>>,
         block'.name # Template => NamePrinted(block'.name),
         block'.vals \subseteq Values,
         \A k \in 1..Len(result') : Genuine(result'[k], phase' = "done")
  PROVE  FromPrinted'
  BY DEF FromPrinted, Genuine, NamePrinted, Values

\* The invariant, collecting.
LEMMA CollectingGenuine ==
  ASSUME TypeOK, FromPrinted, ReadChunk \/ ReadPiece \/ LastPiece
  PROVE  FromPrinted'
<1>1. UNCHANGED <<reader, printed, block, result>> /\ phase # "done" /\ phase' # "done"
  BY DEF ReadChunk, ReadPiece, LastPiece, KeepReading, StartParsing, job
<1>2. CASE text' \in {text, printed, <<>>}
  <2>1. \A k \in 1..Len(text') : \E j \in 1..Len(printed) : text'[k] = printed[j]
    BY <1>2 DEF FromPrinted
  <2> QED
    BY <1>1, <2>1, LinesRead
<1>3. CASE ReadPiece /\ text' = Append(text, printed[next])
  <2>1. next \in 1..Len(printed) /\ printed[next] \in Line
    BY <1>3, Outlines DEF ReadPiece, TypeOK
  <2>2. /\ Len(text') = Len(text) + 1 /\ Len(text) \in Nat
        /\ \A k \in 1..Len(text) : text'[k] = text[k]
        /\ text'[Len(text) + 1] = printed[next]
    BY <1>3, <2>1, AppendProperties, LenProperties DEF TypeOK
  <2>3. ASSUME NEW k \in 1..Len(text')
        PROVE  \E j \in 1..Len(printed) : text'[k] = printed[j]
    <3>1. k \in 1..Len(text) \/ k = Len(text) + 1
      BY <2>2
    <3> QED
      BY <2>1, <2>2, <3>1 DEF FromPrinted
  <2> QED
    BY <1>1, <2>3, LinesRead
<1>4. text' \in {text, printed, <<>>} \/ (ReadPiece /\ text' = Append(text, printed[next]))
  BY DEF ReadChunk, ReadPiece, LastPiece, KeepReading, StartParsing, buffer
<1> QED
  BY <1>2, <1>3, <1>4

\* However much is cut, no name and no value is found that was not printed.
THEOREM NothingEverMadeUp == Spec => []NothingMadeUp
<1>1. Init => FromPrinted
  BY EmptySeq, Entries DEF Init, FromPrinted
<1>2. TypeOK /\ FromPrinted /\ [Next]_vars => FromPrinted'
  <2> SUFFICES ASSUME TypeOK, FromPrinted, [Next]_vars PROVE FromPrinted'
    OBVIOUS
  <2>0. reader \in Reader /\ block \in Entry /\ result \in Seq(Entry)
    BY DEF TypeOK
  <2>01. ASSUME phase # "done"
         PROVE  \A k \in 1..Len(result) : Genuine(result[k], FALSE)
    BY <2>01 DEF TypeOK, FromPrinted
  <2>1. CASE ReadChunk \/ ReadPiece \/ LastPiece
    BY <2>1, CollectingGenuine
  <2>2. ASSUME result' \in {<<>>, <<NoBlock>>}, result' = reader.offers
        PROVE  \A k \in 1..Len(result') : Genuine(result'[k], TRUE)
    BY <2>2 DEF Genuine
  <2>3. CASE ReadFails
    <3>1. \A k \in 1..Len(result') : Genuine(result'[k], TRUE)
      BY <2>0, <2>2, <2>3, ReaderFields DEF ReadFails
    <3>2. UNCHANGED <<reader, printed, block>> /\ text' = <<>> /\ phase' = "done"
      BY <2>3 DEF ReadFails, job
    <3>3. Values' = Values /\ \A n : NamePrinted(n)' <=> NamePrinted(n)
      BY <3>2 DEF Values, NamePrinted
    <3>4. (\A k \in 1..Len(result) : Genuine(result[k], phase = "done"))'
      BY <3>1, <3>2, <3>3 DEF Genuine
    <3>5. \A k \in 1..Len(text') : \E j \in 1..Len(printed') : text'[k] = printed'[j]
      BY <3>2
    <3> QED
      BY <3>2, <3>3, <3>4, <3>5 DEF FromPrinted
  <2>4. CASE ReadRow
    <3>1. Look(Kinds) /\ phase = "parse" /\ phase' = "parse"
      BY <2>4 DEF ReadRow, Look
    <3>0. \A k \in 1..Len(result) : Genuine(result[k], FALSE)
      BY <2>01, <3>1
    <3>2. text[at].name \in Names /\ text[at].val \in Vals
      BY <3>1, ElementOfSeq, LineFields DEF Look, TypeOK
    <3> DEFINE e == [name |-> text[at].name, vals |-> {text[at].val}]
    <3>3. e \in Entry
      BY <3>2, Entries
    <3>4. text[at].kind = "row" => Genuine(e, FALSE)
      BY <3>1, LookedAt DEF Genuine
    <3>5. result' = result \/ (result' = Append(result, e) /\ Genuine(e, FALSE))
      BY <2>4, <3>4 DEF ReadRow
    <3>6. \A k \in 1..Len(result') : Genuine(result'[k], FALSE)
      BY <2>0, <3>0, <3>3, <3>5, AppendGenuine
    <3> QED
      BY <2>4, <3>1, <3>6, LookedAt, BlockRead DEF ReadRow, FromPrinted
  <2>5. CASE ReadHead
    <3>1. /\ Look({"head"}) /\ {"head"} \in SUBSET Kinds
          /\ phase = "parse" /\ phase' = "parse"
      BY <2>5 DEF ReadHead, Kinds, Look
    <3>0. \A k \in 1..Len(result) : Genuine(result[k], FALSE)
      BY <2>01, <3>1
    <3>2. text[at].name \in Names
      BY <3>1, ElementOfSeq, LineFields DEF Look, TypeOK
    <3> DEFINE e == [name |-> text[at].name, vals |-> {}]
    <3>3. e \in Entry /\ Genuine(e, FALSE) /\ NamePrinted(e.name)
      BY <3>1, <3>2, Entries, LookedAt DEF Genuine
    <3>4. block.name # Template => Genuine(block, FALSE)
      BY DEF FromPrinted, Genuine
    <3>5. \/ result' = result
          \/ result' = Append(result, e)
          \/ (result' = Append(result, block) /\ Genuine(block, FALSE))
      BY <2>5, <3>4 DEF ReadHead
    <3>6. \A k \in 1..Len(result') : Genuine(result'[k], FALSE)
      BY <2>0, <3>0, <3>3, <3>5, AppendGenuine
    <3>7. block' \in {e, NoBlock}
      BY <2>5 DEF ReadHead
    <3>8. (block'.name # Template => NamePrinted(block'.name)) /\ block'.vals \subseteq Values
      BY <3>3, <3>7, Entries
    <3> QED
      BY <3>1, <3>6, <3>8, LookedAt, BlockRead
  <2>6. CASE ReadItem
    <3>1. /\ Look({"item"}) /\ {"item"} \in SUBSET Kinds
          /\ phase = "parse" /\ phase' = "parse"
      BY <2>6 DEF ReadItem, Kinds, Look
    <3>0. \A k \in 1..Len(result) : Genuine(result[k], FALSE)
      BY <2>01, <3>1
    <3>2. text[at].val \in Vals /\ text[at].val \in Values
      BY <3>1, ElementOfSeq, LineFields, LookedAt DEF Look, TypeOK
    <3>3. block'.name = block.name /\ block'.vals \subseteq Values
      BY <2>0, <2>6, <3>2, Entries DEF ReadItem, FromPrinted, Entry
    <3>4. ASSUME NEW k \in 1..Len(result'), result' = Added(result, Len(result), text[at].val),
                 block.name # Template
          PROVE  Genuine(result'[k], FALSE)
      <4>1. k \in 1..Len(result) /\ Len(result) \in Nat /\ result[k] \in Entry
        BY <2>0, <3>2, <3>4, ValuesAdded, LenProperties, ElementOfSeq
      <4>0. \A n \in 1..Len(result) :
              Added(result, Len(result), text[at].val)[n] =
                IF n = Len(result) THEN [result[n] EXCEPT !.vals = @ \cup {text[at].val}]
                ELSE result[n]
        BY <2>0, <3>2, <4>1, ValuesAdded
      <4>2. \/ result'[k] = result[k]
            \/ result'[k] = [result[k] EXCEPT !.vals = @ \cup {text[at].val}]
               /\ k = Len(result)
        BY <3>4, <4>0, <4>1
      <4>3. CASE result'[k] = [result[k] EXCEPT !.vals = @ \cup {text[at].val}]
        BY <2>0, <3>0, <3>2, <4>1, <4>3 DEF Genuine, Entry, NoBlock
      <4> QED
        BY <2>0, <3>0, <4>1, <4>2, <4>3
    <3>5. \A k \in 1..Len(result') : Genuine(result'[k], FALSE)
      BY <2>0, <3>0, <2>6, <3>4 DEF ReadItem, Added
    <3> QED
      BY <3>1, <3>3, <3>5, LookedAt, BlockRead DEF FromPrinted
  <2>7. CASE ReadAnyItem
    <3>1. Look(Kinds) /\ phase = "parse" /\ phase' = "parse"
      BY <2>7 DEF ReadAnyItem, Look
    <3>0. \A k \in 1..Len(result) : Genuine(result[k], FALSE)
      BY <2>01, <3>1
    <3>2. text[at].val \in Vals /\ text[at].val \in Values
      BY <3>1, ElementOfSeq, LineFields, LookedAt DEF Look, TypeOK
    <3>3. PICK asked \in reader.wanted :
            \/ result' = result
            \/ result' = Append(result, [name |-> asked, vals |-> {text[at].val}])
      BY <2>7 DEF ReadAnyItem
    <3> DEFINE e == [name |-> asked, vals |-> {text[at].val}]
    <3>4. e \in Entry
      BY <2>0, <3>2, Entries, ReaderFields
    <3>5. Genuine(e, FALSE)
      BY <2>7, <3>2 DEF Genuine, NamePrinted, ReadAnyItem
    <3>6. \A k \in 1..Len(result') : Genuine(result'[k], FALSE)
      BY <2>0, <3>0, <3>3, <3>4, <3>5, AppendGenuine
    <3> QED
      BY <2>7, <3>1, <3>6, LookedAt, BlockRead DEF ReadAnyItem, FromPrinted
  <2>8. CASE SkipLine
    <3>1. /\ UNCHANGED <<reader, printed, text, block, result>>
          /\ phase = "parse" /\ phase' = "parse"
      BY <2>8 DEF SkipLine, Look, job, buffer
    <3> QED
      BY <3>1, BlockRead DEF FromPrinted
  <2>9. CASE Finish
    <3>1. block.name # Template => Genuine(block, TRUE)
      BY DEF FromPrinted, Genuine
    <3>2. reader.offers # <<>> => result \o reader.offers = Append(result, NoBlock)
      <4>1. reader.offers # <<>> => reader.offers = <<NoBlock>>
        BY <2>0, ReaderFields
      <4>2. Append(result, NoBlock) = result \o <<NoBlock>>
        BY <2>0, Entries, AppendIsConcat
      <4> QED
        BY <4>1, <4>2
    <3>3. reader.offers = <<>> => result \o reader.offers = result
      BY <2>0, ConcatEmptySeq
    <3>0. \A k \in 1..Len(result) : Genuine(result[k], TRUE)
      BY <2>01, <2>9 DEF Finish, Genuine
    <3>4. \/ result' = result
          \/ (result' = Append(result, block) /\ Genuine(block, TRUE))
          \/ (result' = Append(result, NoBlock) /\ Genuine(NoBlock, TRUE))
      BY <2>9, <3>1, <3>2, <3>3 DEF Finish, Genuine
    <3>5. \A k \in 1..Len(result') : Genuine(result'[k], TRUE)
      BY <2>0, <3>0, <3>4, Entries, AppendGenuine
    <3> QED
      BY <2>9, <3>5, BlockRead DEF Finish, job, buffer, FromPrinted
  <2>10. CASE UNCHANGED vars
    BY <2>10 DEF vars, job, buffer, FromPrinted, Genuine, NamePrinted, Values
  <2> QED
    BY <2>1, <2>3, <2>4, <2>5, <2>6, <2>7, <2>8, <2>9, <2>10 DEF Next
<1>3. FromPrinted => NothingMadeUp
  BY DEF FromPrinted, NothingMadeUp, Genuine, NamePrinted, Values
<1> QED
  BY <1>1, <1>2, <1>3, ReadersTypeCorrect, PTL DEF Spec

-----------------------------------------------------------------------------
(* The lines sought, in their order.                                       *)

\* Lines are found by their number among those sought.
Numbered(S) ==
  \A n \in 1..Cardinality(S) : Nth(S, n) \in S /\ Cardinality(S \cap 1..Nth(S, n)) = n

\* Some of the first lines: how many.
LEMMA SomeLines ==
  ASSUME NEW z \in Nat, NEW S \in SUBSET (1..z)
  PROVE  /\ IsFiniteSet(S) /\ Cardinality(S) \in Nat
         /\ \A k \in 1..z : /\ IsFiniteSet(S \cap 1..k) /\ Cardinality(S \cap 1..k) \in Nat
                            /\ Cardinality(S \cap 1..k) <= Cardinality(S)
<1>1. IsFiniteSet(1..z)
  BY FS_Interval
<1>2. IsFiniteSet(S)
  BY <1>1, FS_Subset
<1>3. \A k \in 1..z : IsFiniteSet(S \cap 1..k) /\ Cardinality(S \cap 1..k) <= Cardinality(S)
  <2> TAKE k \in 1..z
  <2>1. S \cap 1..k \in SUBSET S
    OBVIOUS
  <2> QED
    BY <1>2, <2>1, FS_Subset
<1> QED
  BY <1>2, <1>3, FS_CardinalityType

\* No two lines have the same number.
LEMMA NthIs ==
  ASSUME NEW z \in Nat, NEW S \in SUBSET (1..z), NEW k \in S
  PROVE  Nth(S, Cardinality(S \cap 1..k)) = k
<1>1. ASSUME NEW i \in S, NEW j \in S, i < j
      PROVE  Cardinality(S \cap 1..i) # Cardinality(S \cap 1..j)
  <2>1. S \cap 1..i \in SUBSET (S \cap 1..j)
    BY <1>1
  <2>2. IsFiniteSet(S \cap 1..j)
    BY SomeLines
  <2>3. j \in S \cap 1..j /\ j \notin S \cap 1..i
    BY <1>1
  <2> QED
    BY <2>1, <2>2, <2>3, FS_Subset
<1>2. ASSUME NEW j \in S, Cardinality(S \cap 1..j) = Cardinality(S \cap 1..k)
      PROVE  j = k
  <2>1. j \in Nat /\ k \in Nat
    OBVIOUS
  <2>2. j < k \/ k < j \/ j = k
    BY <2>1
  <2> QED
    BY <1>1, <1>2, <2>2
<1> QED
  BY <1>2 DEF Nth

\* The lines of S have the same numbers among those of T.
SameNumbers(S, T) ==
  \A n \in 1..Cardinality(S) : /\ Nth(T, n) = Nth(S, n) /\ Nth(T, n) \in S
                               /\ Cardinality(T \cap 1..Nth(T, n)) = n

\* Lines further down do not change the numbers.
LEMMA NthKept ==
  ASSUME NEW y \in Nat, NEW z \in Nat, NEW T \in SUBSET (1..y),
         NEW S \in SUBSET T, \A k \in T : k \in S <=> k <= z, Numbered(S)
  PROVE  SameNumbers(S, T)
<1> SUFFICES ASSUME NEW n \in 1..Cardinality(S)
             PROVE  /\ Nth(T, n) = Nth(S, n) /\ Nth(T, n) \in S
                    /\ Cardinality(T \cap 1..Nth(T, n)) = n
  BY DEF SameNumbers
<1> DEFINE k == Nth(S, n)
<1>1. k \in S /\ Cardinality(S \cap 1..k) = n
  BY DEF Numbered
<1>2. S \cap 1..k = T \cap 1..k /\ k \in T
  <2> HIDE DEF k
  <2> QED
    BY <1>1
<1>3. Nth(T, Cardinality(T \cap 1..k)) = k
  BY <1>2, NthIs
<1> QED
  BY <1>1, <1>2, <1>3

\* One more line gets the next number.
LEMMA NumberedGrows ==
  ASSUME NEW z \in Nat, NEW S \in SUBSET (1..z), Numbered(S)
  PROVE  LET T == S \cup {z + 1} IN
         /\ Cardinality(T) = Cardinality(S) + 1 /\ Numbered(T)
         /\ Nth(T, Cardinality(T)) = z + 1
         /\ \A n \in 1..Cardinality(S) : Nth(T, n) = Nth(S, n)
<1> DEFINE T == S \cup {z + 1}
<1>0. z + 1 \notin S /\ z + 1 \notin 1..z /\ z \in 0..(z + 1) /\ z + 1 \in Nat
      /\ z + 1 \in 1..(z + 1)
  OBVIOUS
<1>01. \A k \in S : k \in 1..z /\ k \in 1..(z + 1)
  OBVIOUS
<1>1. z + 1 \notin S /\ T \in SUBSET (1..(z + 1)) /\ T \cap 1..z = S /\ z \in 0..(z + 1)
      /\ z + 1 \in Nat /\ T \cap 1..(z + 1) = T /\ z + 1 \in T
  BY <1>0, <1>01, Zenon
<1>2. Cardinality(T) = Cardinality(S) + 1 /\ Cardinality(S) \in Nat
  BY <1>1, SomeLines, FS_AddElement
<1> HIDE DEF T
<1>3. Nth(T, Cardinality(T)) = z + 1
  BY <1>1, NthIs
<1>4. SameNumbers(S, T)
  <2> DEFINE y == z + 1
  <2>1. /\ y \in Nat /\ T \in SUBSET (1..y) /\ S \in SUBSET T
        /\ \A k \in T : k \in S <=> k <= z
    BY <1>1 DEF T
  <2> HIDE DEF y
  <2> QED
    BY <2>1, NthKept
<1>5. Numbered(T)
  <2> SUFFICES ASSUME NEW n \in 1..Cardinality(T)
               PROVE  Nth(T, n) \in T /\ Cardinality(T \cap 1..Nth(T, n)) = n
    BY DEF Numbered
  <2>1. n \in 1..Cardinality(S) \/ n = Cardinality(T)
    BY <1>2
  <2> QED
    BY <1>1, <1>3, <1>4, <2>1 DEF SameNumbers
<1> QED
  BY <1>2, <1>3, <1>4, <1>5 DEF T, SameNumbers

-----------------------------------------------------------------------------
(* What a reader should find, line by line.                                *)

\* The lines sought are among those read; the next one is, or is not.
LEMMA SoughtGrows ==
  ASSUME NEW r, NEW d, NEW z \in Nat
  PROVE  /\ Sought(r, d, z) \in SUBSET (1..z)
         /\ Sought(r, d, z + 1) = IF z + 1 \in Sought(r, d, z + 1)
                                  THEN Sought(r, d, z) \cup {z + 1} ELSE Sought(r, d, z)
<1>1. Sought(r, d, z) \in SUBSET (1..z)
  BY DEF Sought
<1> DEFINE P(k) == CASE r.output = "rows"   -> d[k].kind = "row" /\ d[k].name \in r.wanted
                     [] r.output = "items"  -> d[k].kind = "item"
                     [] r.output = "blocks" -> d[k].kind = "head" /\ d[k].name \in r.wanted
<1>2. \A y : Sought(r, d, y) = {k \in 1..y : P(k)}
  BY DEF Sought
<1> HIDE DEF P
<1>3. Sought(r, d, z + 1) = IF P(z + 1) THEN Sought(r, d, z) \cup {z + 1}
                            ELSE Sought(r, d, z)
  <2>1. \A k : k \in 1..(z + 1) <=> k \in 1..z \/ k = z + 1
    OBVIOUS
  <2>2. {k \in 1..(z + 1) : P(k)} = IF P(z + 1) THEN {k \in 1..z : P(k)} \cup {z + 1}
                                   ELSE {k \in 1..z : P(k)}
    BY <2>1, Zenon
  <2> QED
    BY <1>2, <2>2, Zenon
<1>4. z + 1 \in Sought(r, d, z + 1) <=> P(z + 1)
  BY <1>2
<1> QED
  BY <1>1, <1>3, <1>4

\* Those further down are more lines.
LEMMA SoughtKept ==
  ASSUME NEW r, NEW d, NEW z \in Nat, NEW y \in Nat, z <= y
  PROVE  Sought(r, d, y) \cap 1..z = Sought(r, d, z)
<1> DEFINE P(k) == CASE r.output = "rows"   -> d[k].kind = "row" /\ d[k].name \in r.wanted
                     [] r.output = "items"  -> d[k].kind = "item"
                     [] r.output = "blocks" -> d[k].kind = "head" /\ d[k].name \in r.wanted
<1>1. \A x : Sought(r, d, x) = {k \in 1..x : P(k)}
  BY DEF Sought
<1>2. \A k \in 1..z : k \in 1..y
  OBVIOUS
<1> HIDE DEF P
<1> QED
  BY <1>1, <1>2

\* A head below, or none.
LEMMA HeadGrows ==
  ASSUME NEW d, NEW z \in Nat, NEW h \in 1..z
  PROVE  HeadIn(d, h + 1, z + 1) <=> HeadIn(d, h + 1, z) \/ d[z + 1].kind = "head"
  BY DEF HeadIn

\* The next line adds to the block that is open if it is an item, ...
LEMMA ItemsGrow ==
  ASSUME NEW d, NEW z \in Nat, NEW h \in 1..z
  PROVE  ItemsUnder(d, h, z + 1) =
           IF d[z + 1].kind = "item" /\ ~HeadIn(d, h + 1, z)
           THEN ItemsUnder(d, h, z) \cup {d[z + 1].val} ELSE ItemsUnder(d, h, z)
<1> DEFINE P(j) == d[j].kind = "item" /\ ~HeadIn(d, h + 1, j)
<1>1. \A y : ItemsUnder(d, h, y) = {d[k].val : k \in {j \in h..y : P(j)}}
  BY DEF ItemsUnder
<1>2. P(z + 1) <=> d[z + 1].kind = "item" /\ ~HeadIn(d, h + 1, z)
  BY HeadGrows
<1>3. {j \in h..(z + 1) : P(j)} = IF P(z + 1) THEN {j \in h..z : P(j)} \cup {z + 1}
                                  ELSE {j \in h..z : P(j)}
  <2> HIDE DEF P
  <2> QED
    OBVIOUS
<1> DEFINE X == {j \in h..z : P(j)}
<1> HIDE DEF P
<1>4. ItemsUnder(d, h, z) = {d[k].val : k \in X}
  BY <1>1
<1>5. ItemsUnder(d, h, z + 1) = {d[k].val : k \in IF P(z + 1) THEN X \cup {z + 1} ELSE X}
  BY <1>1, <1>3
<1> HIDE DEF X
<1>6. {d[k].val : k \in X \cup {z + 1}} = {d[k].val : k \in X} \cup {d[z + 1].val}
  OBVIOUS
<1> QED
  BY <1>2, <1>4, <1>5, <1>6

\* ... and the lines below the next head do not count.
LEMMA ItemsClosed ==
  ASSUME NEW d, NEW z \in Nat, NEW y \in Nat, z <= y, NEW h \in 1..z, HeadIn(d, h + 1, z)
  PROVE  ItemsUnder(d, h, y) = ItemsUnder(d, h, z)
<1>1. \A j \in (z + 1)..y : HeadIn(d, h + 1, j)
  BY DEF HeadIn
<1>2. {j \in h..y : d[j].kind = "item" /\ ~HeadIn(d, h + 1, j)} =
      {j \in h..z : d[j].kind = "item" /\ ~HeadIn(d, h + 1, j)}
  BY <1>1
<1> QED
  BY <1>2 DEF ItemsUnder

\* A head has nothing under it yet.
LEMMA NoItemsYet ==
  ASSUME NEW d, NEW h \in Nat, d[h].kind = "head"
  PROVE  ItemsUnder(d, h, h) = {}
<1>1. {j \in h..h : d[j].kind = "item" /\ ~HeadIn(d, h + 1, j)} = {}
  OBVIOUS
<1> QED
  BY <1>1 DEF ItemsUnder

\* A longer sequence, entry by entry.
LEMMA AppendIs ==
  ASSUME NEW s \in Seq(Entry), NEW e \in Entry, NEW f,
         f = [n \in 1..(Len(s) + 1) |-> f[n]], f[Len(s) + 1] = e,
         \A n \in 1..Len(s) : f[n] = s[n]
  PROVE  f = Append(s, e)
<1> DEFINE t == Append(s, e)
<1>1. /\ t \in Seq(Entry) /\ Len(t) = Len(s) + 1 /\ Len(s) \in Nat
      /\ t[Len(s) + 1] = e /\ \A n \in 1..Len(s) : t[n] = s[n]
  BY AppendProperties, LenProperties
<1>2. t = [n \in 1..(Len(s) + 1) |-> t[n]]
  BY <1>1, LenProperties
<1> HIDE DEF t
<1>3. ASSUME NEW n \in 1..(Len(s) + 1) PROVE f[n] = t[n]
  <2>1. n \in 1..Len(s) \/ n = Len(s) + 1
    BY <1>1
  <2> QED
    BY <1>1, <2>1
<1>4. f = t
  BY <1>2, <1>3
<1> QED
  BY <1>4 DEF t

\* What is found has an entry for each line sought.
LEMMA FoundLength ==
  ASSUME NEW r, NEW d, NEW z \in Nat, FoundIn(r, d, z) \in Seq(Entry)
  PROVE  /\ Len(FoundIn(r, d, z)) = Cardinality(Sought(r, d, z))
         /\ Len(FoundIn(r, d, z)) \in Nat
<1>1. DOMAIN FoundIn(r, d, z) = 1..Cardinality(Sought(r, d, z))
  BY DEF FoundIn
<1>2. Cardinality(Sought(r, d, z)) \in Nat
  BY SoughtGrows, SomeLines
<1> DEFINE s == FoundIn(r, d, z)
<1>3. s \in Seq(Entry) /\ DOMAIN s = 1..Cardinality(Sought(r, d, z))
  BY <1>1
<1> HIDE DEF s
<1>4. DOMAIN s = 1..Len(s) /\ Len(s) \in Nat
  BY <1>3, LenProperties
<1>5. Len(s) = Cardinality(Sought(r, d, z))
  BY <1>2, <1>3, <1>4
<1> QED
  BY <1>4, <1>5 DEF s

\* A line that is not sought and adds to nothing changes nothing.
LEMMA FoundSame ==
  ASSUME NEW r, NEW d, NEW z \in Nat, Numbered(Sought(r, d, z)),
         z + 1 \notin Sought(r, d, z + 1),
         \A h \in Sought(r, d, z) : EntryAt(r, d, z + 1, h) = EntryAt(r, d, z, h)
  PROVE  /\ FoundIn(r, d, z + 1) = FoundIn(r, d, z)
         /\ Sought(r, d, z + 1) = Sought(r, d, z)
<1>1. Sought(r, d, z + 1) = Sought(r, d, z)
  <2>1. Sought(r, d, z + 1) = IF z + 1 \in Sought(r, d, z + 1)
                              THEN Sought(r, d, z) \cup {z + 1} ELSE Sought(r, d, z)
    BY SoughtGrows
  <2> QED
    BY <2>1
<1>2. \A n \in 1..Cardinality(Sought(r, d, z)) : Nth(Sought(r, d, z), n) \in Sought(r, d, z)
  BY DEF Numbered
<1> QED
  BY <1>1, <1>2 DEF FoundIn

\* A line that is sought is the last one found.
LEMMA FoundMore ==
  ASSUME NEW r, NEW d, NEW z \in Nat, Numbered(Sought(r, d, z)),
         z + 1 \in Sought(r, d, z + 1), FoundIn(r, d, z) \in Seq(Entry),
         EntryAt(r, d, z + 1, z + 1) \in Entry,
         \A h \in Sought(r, d, z) : EntryAt(r, d, z + 1, h) = EntryAt(r, d, z, h)
  PROVE  /\ FoundIn(r, d, z + 1) = Append(FoundIn(r, d, z), EntryAt(r, d, z + 1, z + 1))
         /\ Numbered(Sought(r, d, z + 1))
<1> DEFINE S == Sought(r, d, z)
           T == Sought(r, d, z + 1)
           s == FoundIn(r, d, z)
           f == FoundIn(r, d, z + 1)
           e == EntryAt(r, d, z + 1, z + 1)
<1>1. T = S \cup {z + 1} /\ S \in SUBSET (1..z)
  BY SoughtGrows
<1>2. /\ Cardinality(T) = Cardinality(S) + 1 /\ Numbered(T)
      /\ Nth(T, Cardinality(T)) = z + 1
      /\ \A n \in 1..Cardinality(S) : Nth(T, n) = Nth(S, n)
  <2> HIDE DEF S, T
  <2>1. Numbered(S)
    BY DEF S
  <2> QED
    BY <1>1, <2>1, NumberedGrows
<1>3. Len(s) = Cardinality(S) /\ Len(s) \in Nat
  BY FoundLength
<1>4. f = [n \in 1..Cardinality(T) |-> EntryAt(r, d, z + 1, Nth(T, n))]
  BY DEF FoundIn
<1>5. s = [n \in 1..Cardinality(S) |-> EntryAt(r, d, z, Nth(S, n))]
  BY DEF FoundIn
<1>6. \A n \in 1..Cardinality(S) : Nth(S, n) \in S
  BY DEF Numbered
<1>7. s \in Seq(Entry) /\ e \in Entry
  OBVIOUS
<1>8. \A h \in S : EntryAt(r, d, z + 1, h) = EntryAt(r, d, z, h)
  OBVIOUS
<1>9. e = EntryAt(r, d, z + 1, z + 1)
  OBVIOUS
<1> HIDE DEF S, T, s, f, e
<1>10. f = [n \in 1..(Len(s) + 1) |-> f[n]] /\ f[Len(s) + 1] = e
  BY <1>2, <1>3, <1>4, <1>9
<1>11. \A n \in 1..Len(s) : f[n] = s[n]
  BY <1>2, <1>3, <1>4, <1>5, <1>6, <1>8
<1>12. f = Append(s, e)
  BY <1>7, <1>10, <1>11, AppendIs
<1> QED
  BY <1>2, <1>12 DEF T, s, f, e

\* The latest head is the last one.
LEMMA LatestIsLast ==
  ASSUME NEW r, NEW d, NEW z \in Nat, NEW h \in Sought(r, d, z), r.output = "blocks",
         ~HeadIn(d, h + 1, z)
  PROVE  /\ Nth(Sought(r, d, z), Cardinality(Sought(r, d, z))) = h
         /\ Cardinality(Sought(r, d, z)) \in Nat \ {0}
         /\ \A k \in Sought(r, d, z) : k # h => HeadIn(d, k + 1, z)
<1> DEFINE S == Sought(r, d, z)
<1>1. S \in SUBSET (1..z) /\ h \in S
  BY SoughtGrows
<1>2. \A k \in S : d[k].kind = "head"
  BY DEF Sought
<1>3. \A k \in S : k <= h
  BY <1>1, <1>2 DEF HeadIn
<1>4. \A k \in S : k # h => HeadIn(d, k + 1, z)
  BY <1>1, <1>2, <1>3 DEF HeadIn
<1> HIDE DEF S
<1>5. S \cap 1..h = S
  <2>1. \A k \in S : k \in 1..z /\ k \in 1..h
    BY <1>1, <1>3
  <2> QED
    BY <2>1, Zenon
<1>6. Nth(S, Cardinality(S)) = h
  BY <1>1, <1>5, NthIs
<1>7. Cardinality(S) \in Nat /\ Cardinality(S) # 0
  BY <1>1, SomeLines, FS_EmptySet
<1> QED
  BY <1>4, <1>6, <1>7 DEF S

\* An item below the latest head is added to its entry.
LEMMA FoundAdded ==
  ASSUME NEW r, NEW d, NEW z \in Nat, Numbered(Sought(r, d, z)), r.output = "blocks",
         d[z + 1].kind = "item", NEW h \in Sought(r, d, z), ~HeadIn(d, h + 1, z)
  PROVE  /\ FoundIn(r, d, z + 1) =
              Added(FoundIn(r, d, z), Cardinality(Sought(r, d, z)), d[z + 1].val)
         /\ Sought(r, d, z + 1) = Sought(r, d, z)
<1> DEFINE S == Sought(r, d, z)
           c == Cardinality(S)
           s == FoundIn(r, d, z)
           v == d[z + 1].val
<1>1. z + 1 \notin Sought(r, d, z + 1)
  BY DEF Sought
<1>2. Sought(r, d, z + 1) = S /\ S \in SUBSET (1..z)
  BY <1>1, SoughtGrows
<1>3. /\ Nth(S, c) = h /\ c \in Nat \ {0}
      /\ \A k \in S : k # h => HeadIn(d, k + 1, z)
  BY LatestIsLast
<1>4. \A n \in 1..c : Nth(S, n) \in S /\ (n # c => Nth(S, n) # h)
  <2> SUFFICES ASSUME NEW n \in 1..c
               PROVE  Nth(S, n) \in S /\ (Nth(S, n) = h => n = c)
    OBVIOUS
  <2>1. \A m \in 1..c : Nth(S, m) \in S /\ Cardinality(S \cap 1..Nth(S, m)) = m
    BY DEF Numbered
  <2>2. c \in 1..c
    BY <1>3
  <2> HIDE DEF S, c
  <2> QED
    BY <1>3, <2>1, <2>2
<1>5. \A k \in S : EntryAt(r, d, z + 1, k) =
        IF k = h THEN [EntryAt(r, d, z, k) EXCEPT !.vals = @ \cup {v}] ELSE EntryAt(r, d, z, k)
  <2> TAKE k \in S
  <2>1. ItemsUnder(d, k, z + 1) =
          IF k = h THEN ItemsUnder(d, k, z) \cup {v} ELSE ItemsUnder(d, k, z)
    BY <1>2, <1>3, ItemsGrow
  <2> QED
    BY <2>1 DEF EntryAt
<1>6. s = [n \in 1..c |-> EntryAt(r, d, z, Nth(S, n))]
  BY DEF FoundIn
<1>7. FoundIn(r, d, z + 1) = [n \in 1..c |-> EntryAt(r, d, z + 1, Nth(S, n))]
  BY <1>2 DEF FoundIn
<1> HIDE DEF S, c, s, v
<1>8. Added(s, c, v) = [n \in 1..c |-> IF n = c THEN [s[n] EXCEPT !.vals = @ \cup {v}] ELSE s[n]]
  BY <1>3, <1>6 DEF Added
<1>9. \A n \in 1..c : EntryAt(r, d, z + 1, Nth(S, n)) =
                      IF n = c THEN [s[n] EXCEPT !.vals = @ \cup {v}] ELSE s[n]
  BY <1>3, <1>4, <1>5, <1>6
<1>10. FoundIn(r, d, z + 1) = Added(s, c, v)
  BY <1>7, <1>8, <1>9
<1> QED
  BY <1>2, <1>10 DEF S, c, s, v

-----------------------------------------------------------------------------
(* The loops.                                                              *)

\* What all readers have in common.
Plain(r) ==
  /\ r.defers => r.output = "blocks" /\ r.room = {} /\ r.offers = <<>>
  /\ r.room = {} \/ (r.offers = <<>> /\ \E m \in Nat \ {0} : r.room = {m})
  /\ r.output = "items" => \E n \in Names : r.wanted = {n}
  /\ r.skips => r.output = "rows"

LEMMA ReadersArePlain == \A r \in Readers : Plain(r)
<1>1. \A o \in {"rows", "blocks", "items"}, s \in BOOLEAN, m \in Nat \ {0} :
        (s => o = "rows") /\ o # "items" => Plain(Api(o, s, {m}))
  BY DEF Api, Plain
<1>2. /\ Plain(GetBonds) /\ Plain(GetLcps) /\ Plain(GetInterfaces)
  BY <1>1, ReadersAssumption DEF GetBonds, GetLcps, GetInterfaces
<1>3. Plain(ParseShowInterface)
  BY DEF Plain, ParseShowInterface, Api
<1>4. /\ Plain(CliShowInterfaces) /\ Plain(CliShowInterfacesBrief)
      /\ Plain(CliShowBond) /\ Plain(CliShowLcp)
  BY DEF Plain, Show, CliShowInterfaces, CliShowInterfacesBrief, CliShowBond, CliShowLcp
<1>5. \A n \in Names : Plain(CliShowInterfaceDetail(n))
  BY DEF Plain, Show, CliShowInterfaceDetail
<1>6. \A W \in Lists : Plain(SyncMembers(W))
  BY DEF Plain, Show, SyncMembers
<1>7. \A C : Plain(Completion(C))
  BY DEF Plain, Show, Completion
<1>8. Plain(CliExpandBonds)
  BY DEF Plain, Show, Completion, CliExpandBonds
<1>9. /\ Plain(CliExpandInterfaces) /\ Plain(CliExpandEthernet) /\ Plain(CliExpandLoopback)
      /\ Plain(CliExpandSubifs) /\ Plain(CliExpandParents)
  BY <1>7 DEF CliExpandInterfaces, CliExpandEthernet, CliExpandLoopback,
              CliExpandSubifs, CliExpandParents
<1>10. /\ Plain(SyncInterfaces) /\ Plain(SyncBondsFallback) /\ Plain(SyncLcpsFallback)
  BY <1>7 DEF Plain, Show, SyncInterfaces, SyncBondsFallback, SyncLcpsFallback
<1>11. \A n \in Names : Plain(SyncAddresses(n)) /\ Plain(SyncMtu(n))
  <2>1. \E m \in Nat \ {0} : {1} = {m}
    OBVIOUS
  <2> QED
    BY <2>1 DEF Plain, Show, SyncAddresses, SyncMtu
<1> QED
  BY <1>2, <1>3, <1>4, <1>5, <1>6, <1>8, <1>9, <1>10, <1>11 DEF Readers

\* The open block is that of the latest head; none is open if that head, or there
\* being no head, leaves the items that follow to nobody.
OpenBlock(r, d, z, blk) ==
  IF blk.name = Template
  THEN \A h \in Sought(r, d, z) : HeadIn(d, h + 1, z)
  ELSE \E h \in Sought(r, d, z) : ~HeadIn(d, h + 1, z) /\ blk.name = d[h].name

Filled(r, res) == \E m \in r.room : Len(res) >= m

\* No more is found than there is room for, and what fills it is a bare head.
WithRoom(r, res) ==
  /\ \A m \in r.room : Len(res) <= m
  /\ r.output = "blocks" /\ Filled(r, res) => res[Len(res)].vals = {}

\* After z lines the entries, with the block not printed yet, are those of z lines.
Progress(r, d, z, blk, res) ==
  /\ Numbered(Sought(r, d, z))
  /\ FoundIn(r, d, z) = IF r.defers /\ blk.name # Template THEN Append(res, blk) ELSE res
  /\ r.output = "blocks" => OpenBlock(r, d, z, blk)
  /\ WithRoom(r, res)

\* Room for one more is room for one more.
LEMMA RoomForOne ==
  ASSUME NEW r \in Reader, Plain(r), NEW res \in Seq(Entry), WithRoom(r, res), ~Filled(r, res),
         NEW e \in Entry, r.output = "blocks" => e.vals = {}
  PROVE  WithRoom(r, Append(res, e))
<1>1. /\ Len(Append(res, e)) = Len(res) + 1 /\ Len(res) \in Nat
      /\ Append(res, e)[Len(res) + 1] = e
  BY AppendProperties, LenProperties
<1>2. \A m \in r.room : m \in Nat /\ Len(res) < m
  BY <1>1, ReaderFields DEF Filled
<1> QED
  BY <1>1, <1>2 DEF WithRoom

\* An entry that grows takes no room.
LEMMA RoomForSame ==
  ASSUME NEW r, NEW res, NEW new, WithRoom(r, res), ~Filled(r, res), Len(new) = Len(res)
  PROVE  WithRoom(r, new)
  BY DEF WithRoom, Filled

\* A line that is an entry of its own, or none.
LEMMA EntryProgress ==
  ASSUME NEW r \in Reader, Plain(r), NEW d, NEW z \in Nat, NEW blk \in Entry,
         NEW res \in Seq(Entry), Progress(r, d, z, blk, res), ~Filled(r, res),
         r.output # "blocks", NEW new \in Entry, EntryAt(r, d, z + 1, z + 1) = new
  PROVE  Progress(r, d, z + 1, blk,
                  IF z + 1 \in Sought(r, d, z + 1) THEN Append(res, new) ELSE res)
<1>1. \A h : EntryAt(r, d, z + 1, h) = EntryAt(r, d, z, h)
  BY DEF EntryAt
<1>2. ~r.defers
  BY DEF Plain
<1>3. FoundIn(r, d, z) = res /\ Numbered(Sought(r, d, z)) /\ WithRoom(r, res)
  BY <1>2 DEF Progress
<1>4. CASE z + 1 \in Sought(r, d, z + 1)
  <2>1. FoundIn(r, d, z + 1) = Append(res, new) /\ Numbered(Sought(r, d, z + 1))
    BY <1>1, <1>3, <1>4, FoundMore
  <2>2. WithRoom(r, Append(res, new))
    BY <1>3, RoomForOne
  <2> QED
    BY <1>2, <1>4, <2>1, <2>2 DEF Progress
<1>5. CASE z + 1 \notin Sought(r, d, z + 1)
  <2>1. FoundIn(r, d, z + 1) = res /\ Numbered(Sought(r, d, z + 1))
    BY <1>1, <1>3, <1>5, FoundSame
  <2> QED
    BY <1>2, <1>3, <1>5, <2>1 DEF Progress
<1> QED
  BY <1>4, <1>5

\* A row.
LEMMA RowProgress ==
  ASSUME NEW r \in Reader, Plain(r), NEW d, NEW z \in Nat, d[z + 1] \in Line,
         NEW blk \in Entry, NEW res \in Seq(Entry), Progress(r, d, z, blk, res),
         ~Filled(r, res), r.output = "rows"
  PROVE  LET new == [name |-> d[z + 1].name, vals |-> {d[z + 1].val}] IN
         Progress(r, d, z + 1, blk,
                  IF d[z + 1].kind = "row" /\ d[z + 1].name \in r.wanted
                  THEN Append(res, new) ELSE res)
<1> DEFINE new == [name |-> d[z + 1].name, vals |-> {d[z + 1].val}]
<1>1. new \in Entry
  BY LineFields, Entries
<1>2. EntryAt(r, d, z + 1, z + 1) = new
  BY DEF EntryAt
<1>3. z + 1 \in Sought(r, d, z + 1) <=> d[z + 1].kind = "row" /\ d[z + 1].name \in r.wanted
  BY DEF Sought
<1> HIDE DEF new
<1>4. Progress(r, d, z + 1, blk, IF z + 1 \in Sought(r, d, z + 1) THEN Append(res, new) ELSE res)
  BY <1>1, <1>2, EntryProgress
<1> QED
  BY <1>3, <1>4 DEF new

\* An item of an output about one interface.
LEMMA AnyItemProgress ==
  ASSUME NEW r \in Reader, Plain(r), NEW d, NEW z \in Nat, d[z + 1] \in Line,
         NEW blk \in Entry, NEW res \in Seq(Entry), Progress(r, d, z, blk, res),
         ~Filled(r, res), r.output = "items", NEW asked \in r.wanted
  PROVE  LET new == [name |-> asked, vals |-> {d[z + 1].val}] IN
         Progress(r, d, z + 1, blk,
                  IF d[z + 1].kind = "item" THEN Append(res, new) ELSE res)
<1> DEFINE new == [name |-> asked, vals |-> {d[z + 1].val}]
<1>1. new \in Entry
  BY LineFields, Entries, ReaderFields
<1>2. EntryAt(r, d, z + 1, z + 1) = new
  <2>1. (CHOOSE n \in r.wanted : TRUE) = asked
    BY DEF Plain
  <2> QED
    BY <2>1 DEF EntryAt
<1>3. z + 1 \in Sought(r, d, z + 1) <=> d[z + 1].kind = "item"
  BY DEF Sought
<1> HIDE DEF new
<1>4. Progress(r, d, z + 1, blk, IF z + 1 \in Sought(r, d, z + 1) THEN Append(res, new) ELSE res)
  BY <1>1, <1>2, EntryProgress
<1> QED
  BY <1>3, <1>4 DEF new

\* A line that is no item leaves the entries as they are.
LEMMA NotAnItem ==
  ASSUME NEW r, NEW d, NEW z \in Nat, r.output = "blocks", d[z + 1].kind # "item"
  PROVE  \A h \in Sought(r, d, z) : EntryAt(r, d, z + 1, h) = EntryAt(r, d, z, h)
<1> TAKE h \in Sought(r, d, z)
<1>1. h \in 1..z
  BY SoughtGrows
<1>2. ItemsUnder(d, h, z + 1) = ItemsUnder(d, h, z)
  BY <1>1, ItemsGrow
<1> QED
  BY <1>2 DEF EntryAt

\* A line that is no head leaves the block open.
LEMMA NotAHead ==
  ASSUME NEW r, NEW d, NEW z \in Nat, r.output = "blocks", d[z + 1].kind # "head",
         NEW blk, NEW new, new.name = blk.name, OpenBlock(r, d, z, blk)
  PROVE  OpenBlock(r, d, z + 1, new) /\ Sought(r, d, z + 1) = Sought(r, d, z)
<1>1. z + 1 \notin Sought(r, d, z + 1)
  BY DEF Sought
<1>2. Sought(r, d, z + 1) = Sought(r, d, z) /\ Sought(r, d, z) \in SUBSET (1..z)
  BY <1>1, SoughtGrows
<1>3. \A h \in Sought(r, d, z) : HeadIn(d, h + 1, z + 1) <=> HeadIn(d, h + 1, z)
  BY <1>2, HeadGrows
<1> QED
  BY <1>2, <1>3 DEF OpenBlock

\* A line of a block that is neither.
LEMMA SkipProgress ==
  ASSUME NEW r \in Reader, NEW d, NEW z \in Nat, r.output = "blocks",
         d[z + 1].kind \notin {"head", "item"},
         NEW blk \in Entry, NEW res \in Seq(Entry), Progress(r, d, z, blk, res)
  PROVE  Progress(r, d, z + 1, blk, res)
<1>1. OpenBlock(r, d, z + 1, blk) /\ Sought(r, d, z + 1) = Sought(r, d, z)
  BY NotAHead DEF Progress
<1>2. z + 1 \notin Sought(r, d, z + 1)
  BY DEF Sought
<1>3. Numbered(Sought(r, d, z)) /\ d[z + 1].kind # "item"
  BY DEF Progress
<1>4. \A h \in Sought(r, d, z) : EntryAt(r, d, z + 1, h) = EntryAt(r, d, z, h)
  BY <1>3, NotAnItem
<1>5. FoundIn(r, d, z + 1) = FoundIn(r, d, z)
  BY <1>2, <1>3, <1>4, FoundSame
<1> QED
  BY <1>1, <1>5 DEF Progress

\* A head.  The block before it, if it was not printed yet, is printed now.
LEMMA HeadProgress ==
  ASSUME NEW r \in Reader, Plain(r), NEW d, NEW z \in Nat, d[z + 1] \in Line,
         NEW blk \in Entry, NEW res \in Seq(Entry), Progress(r, d, z, blk, res),
         ~Filled(r, res), r.output = "blocks", d[z + 1].kind = "head"
  PROVE  LET new == [name |-> d[z + 1].name, vals |-> {}]
             wanted == new.name \in r.wanted
         IN Progress(r, d, z + 1, IF wanted THEN new ELSE NoBlock,
                     IF ~r.defers THEN IF wanted THEN Append(res, new) ELSE res
                     ELSE IF blk.name # Template THEN Append(res, blk) ELSE res)
<1> DEFINE new == [name |-> d[z + 1].name, vals |-> {}]
           wanted == d[z + 1].name \in r.wanted
           open == IF wanted THEN new ELSE NoBlock
           old == IF r.defers /\ blk.name # Template THEN Append(res, blk) ELSE res
           res2 == IF ~r.defers THEN IF wanted THEN Append(res, new) ELSE res ELSE old
<1>1. new \in Entry /\ new.name # Template /\ new.vals = {} /\ new.name = d[z + 1].name
  BY LineFields, Entries, ReadersAssumption
<1>2. open \in Entry /\ (open.name = Template <=> ~wanted)
  BY <1>1, Entries
<1>3. \A h \in Sought(r, d, z) : EntryAt(r, d, z + 1, h) = EntryAt(r, d, z, h)
  BY NotAnItem
<1>4. EntryAt(r, d, z + 1, z + 1) = new
  <2>1. ItemsUnder(d, z + 1, z + 1) = {}
    <3> DEFINE h == z + 1
    <3>1. h \in Nat /\ d[h].kind = "head"
      OBVIOUS
    <3> HIDE DEF h
    <3>2. ItemsUnder(d, h, h) = {}
      BY <3>1, NoItemsYet
    <3> QED
      BY <3>2 DEF h
  <2> QED
    BY <2>1 DEF EntryAt
<1>5. z + 1 \in Sought(r, d, z + 1) <=> wanted
  BY DEF Sought
<1>6. FoundIn(r, d, z) = old /\ old \in Seq(Entry) /\ Numbered(Sought(r, d, z))
  BY AppendProperties DEF Progress
<1>7. /\ FoundIn(r, d, z + 1) = IF wanted THEN Append(old, new) ELSE old
      /\ Numbered(Sought(r, d, z + 1))
  <2> HIDE DEF new, old
  <2>1. CASE wanted
    <3>1. z + 1 \in Sought(r, d, z + 1) /\ EntryAt(r, d, z + 1, z + 1) \in Entry
      BY <1>1, <1>4, <1>5, <2>1
    <3>2. /\ FoundIn(r, d, z + 1) = Append(old, EntryAt(r, d, z + 1, z + 1))
          /\ Numbered(Sought(r, d, z + 1))
      BY <1>3, <1>6, <3>1, FoundMore
    <3> QED
      BY <1>4, <2>1, <3>2
  <2>2. CASE ~wanted
    <3>1. FoundIn(r, d, z + 1) = old /\ Sought(r, d, z + 1) = Sought(r, d, z)
      BY <1>3, <1>5, <1>6, <2>2, FoundSame
    <3> QED
      BY <1>6, <2>2, <3>1
  <2> QED
    BY <2>1, <2>2
<1>8. OpenBlock(r, d, z + 1, open)
  <2>0. Sought(r, d, z) \in SUBSET (1..z)
    BY SoughtGrows
  <2>1. CASE wanted
    <3>1. ~HeadIn(d, (z + 1) + 1, z + 1)
      BY DEF HeadIn
    <3> QED
      BY <1>1, <1>2, <1>5, <2>1, <3>1 DEF OpenBlock
  <2>2. CASE ~wanted
    <3>1. Sought(r, d, z + 1) = Sought(r, d, z)
      BY <1>3, <1>5, <1>6, <2>2, FoundSame
    <3>2. \A h \in Sought(r, d, z) : HeadIn(d, h + 1, z + 1)
      BY <2>0, HeadGrows
    <3> QED
      BY <1>2, <2>2, <3>1, <3>2 DEF OpenBlock
  <2> QED
    BY <2>1, <2>2
<1>9. WithRoom(r, res2)
  <2>0. WithRoom(r, res)
    BY DEF Progress
  <2>1. CASE r.defers
    BY <2>1 DEF Plain, WithRoom, Filled
  <2>2. CASE ~r.defers
    BY <1>1, <2>0, <2>2, RoomForOne
  <2> QED
    BY <2>1, <2>2
<1>10. FoundIn(r, d, z + 1) = IF r.defers /\ open.name # Template THEN Append(res2, open) ELSE res2
  <2>1. CASE r.defers
    BY <1>2, <1>7, <2>1
  <2>2. CASE ~r.defers
    BY <1>7, <2>2
  <2> QED
    BY <2>1, <2>2
<1>11. Progress(r, d, z + 1, open, res2)
  <2> HIDE DEF open, res2
  <2> QED
    BY <1>7, <1>8, <1>9, <1>10 DEF Progress
<1> QED
  BY <1>11

\* An item.  It is added to the block that is open, which the reader keeps by
\* itself, or has put into its list.
LEMMA ItemProgress ==
  ASSUME NEW r \in Reader, Plain(r), NEW d, NEW z \in Nat, d[z + 1] \in Line,
         NEW blk \in Entry, NEW res \in Seq(Entry), Progress(r, d, z, blk, res),
         ~Filled(r, res), r.output = "blocks", d[z + 1].kind = "item"
  PROVE  LET v == d[z + 1].val IN
         Progress(r, d, z + 1,
                  IF r.defers THEN [blk EXCEPT !.vals = @ \cup {v}] ELSE blk,
                  IF r.defers \/ blk.name = Template THEN res ELSE Added(res, Len(res), v))
<1> DEFINE v == d[z + 1].val
           more == [blk EXCEPT !.vals = @ \cup {v}]
           blk2 == IF r.defers THEN more ELSE blk
           res2 == IF r.defers \/ blk.name = Template THEN res ELSE Added(res, Len(res), v)
<1>1. v \in Vals /\ more \in Entry /\ more.name = blk.name /\ blk2.name = blk.name
  BY LineFields, Entries DEF Entry
<1>2. OpenBlock(r, d, z, blk) /\ Numbered(Sought(r, d, z)) /\ WithRoom(r, res)
  BY DEF Progress
<1>3. OpenBlock(r, d, z + 1, blk2) /\ Sought(r, d, z + 1) = Sought(r, d, z)
  <2> HIDE DEF blk2
  <2> QED
    BY <1>1, <1>2, NotAHead
<1>4. Len(res) \in Nat /\ Added(res, Len(res), v) \in Seq(Entry)
      /\ Len(Added(res, Len(res), v)) = Len(res)
  <2>1. Len(res) \in Nat
    BY LenProperties
  <2> QED
    BY <1>1, <2>1, ValuesAdded
<1>5. WithRoom(r, res2)
  BY <1>2, <1>4, RoomForSame
<1>6. CASE blk.name = Template
  <2>1. \A h \in Sought(r, d, z) : EntryAt(r, d, z + 1, h) = EntryAt(r, d, z, h)
    <3> TAKE h \in Sought(r, d, z)
    <3>1. h \in 1..z /\ HeadIn(d, h + 1, z)
      BY <1>2, <1>6, SoughtGrows DEF OpenBlock
    <3>2. ItemsUnder(d, h, z + 1) = ItemsUnder(d, h, z)
      BY <3>1, ItemsGrow
    <3> QED
      BY <3>2 DEF EntryAt
  <2>2. z + 1 \notin Sought(r, d, z + 1)
    BY DEF Sought
  <2>3. FoundIn(r, d, z + 1) = FoundIn(r, d, z)
    BY <1>2, <2>1, <2>2, FoundSame
  <2>4. FoundIn(r, d, z + 1) = res /\ res2 = res
    BY <1>6, <2>3 DEF Progress
  <2>5. Progress(r, d, z + 1, blk2, res2)
    <3> HIDE DEF blk2, res2
    <3> QED
      BY <1>1, <1>2, <1>3, <1>5, <1>6, <2>4 DEF Progress
  <2> QED
    BY <2>5
<1>7. CASE blk.name # Template
  <2>1. PICK h \in Sought(r, d, z) : ~HeadIn(d, h + 1, z)
    BY <1>2, <1>7 DEF OpenBlock
  <2>2. FoundIn(r, d, z + 1) = Added(FoundIn(r, d, z), Cardinality(Sought(r, d, z)), v)
    BY <1>2, <2>1, FoundAdded
  <2>3. FoundIn(r, d, z + 1) = IF r.defers THEN Append(res, more) ELSE Added(res, Len(res), v)
    <3>1. CASE ~r.defers
      <4>1. FoundIn(r, d, z) = res
        BY <3>1 DEF Progress
      <4>2. Cardinality(Sought(r, d, z)) = Len(res)
        BY <4>1, FoundLength
      <4> QED
        BY <2>2, <3>1, <4>1, <4>2
    <3>2. CASE r.defers
      <4> DEFINE s == Append(res, blk)
                 k == Len(res) + 1
                 f == Added(s, k, v)
      <4>1. FoundIn(r, d, z) = s
        BY <1>7, <3>2 DEF Progress
      <4>2. /\ s \in Seq(Entry) /\ Len(s) = k /\ k \in Nat /\ k \in 1..k /\ s[k] = blk
            /\ \A n \in 1..Len(res) : s[n] = res[n] /\ n \in 1..k /\ n # k
        BY <1>4, AppendProperties
      <4>3. Cardinality(Sought(r, d, z)) = k
        BY <4>1, <4>2, FoundLength
      <4>4. more = [blk EXCEPT !.vals = @ \cup {v}] /\ more \in Entry /\ v \in Vals
        BY <1>1
      <4> HIDE DEF s, k, v, more
      <4>5. /\ f \in Seq(Entry) /\ Len(f) = k
            /\ \A n \in 1..k :
                 f[n] = IF n = k THEN [s[n] EXCEPT !.vals = @ \cup {v}] ELSE s[n]
        <5>1. s \in Seq(Entry) /\ k \in Nat /\ v \in Vals
          BY <4>2, <4>4
        <5>2. /\ f \in Seq(Entry) /\ Len(f) = Len(s)
              /\ \A n \in 1..Len(s) :
                   f[n] = IF n = k THEN [s[n] EXCEPT !.vals = @ \cup {v}] ELSE s[n]
          BY <5>1, ValuesAdded
        <5>3. Len(s) = k
          BY <4>2
        <5> QED
          BY <5>2, <5>3
      <4> HIDE DEF f
      <4>6. f[k] = more /\ \A n \in 1..Len(res) : f[n] = res[n]
        BY <4>2, <4>4, <4>5
      <4>7. f = [n \in 1..k |-> f[n]]
        BY <4>5, LenProperties
      <4>8. f = Append(res, more)
        <5>1. f = [n \in 1..(Len(res) + 1) |-> f[n]] /\ f[Len(res) + 1] = more
          BY <4>6, <4>7 DEF k
        <5> QED
          BY <4>4, <4>6, <5>1, AppendIs
      <4> QED
        BY <2>2, <3>2, <4>1, <4>3, <4>8 DEF f
    <3> QED
      BY <3>1, <3>2
  <2>4. FoundIn(r, d, z + 1) = IF r.defers /\ blk2.name # Template THEN Append(res2, blk2) ELSE res2
    BY <1>1, <1>7, <2>3
  <2>5. Progress(r, d, z + 1, blk2, res2)
    <3> HIDE DEF blk2, res2
    <3> QED
      BY <1>2, <1>3, <1>5, <2>4 DEF Progress
  <2> QED
    BY <2>5
<1> QED
  BY <1>6, <1>7

\* What was found of the first lines is found of all, but for the items of the last
\* block.
LEMMA FoundPrefix ==
  ASSUME NEW r, NEW d, NEW z \in Nat, NEW y \in Nat, z <= y, Numbered(Sought(r, d, z)),
         NEW n \in 1..Cardinality(Sought(r, d, z))
  PROVE  /\ n \in 1..Cardinality(Sought(r, d, y))
         /\ FoundIn(r, d, y)[n].name = FoundIn(r, d, z)[n].name
         /\ r.output # "blocks" \/ n < Cardinality(Sought(r, d, z)) =>
              FoundIn(r, d, y)[n].vals = FoundIn(r, d, z)[n].vals
<1> DEFINE S == Sought(r, d, z)
           T == Sought(r, d, y)
           k == Nth(S, n)
<1>1. T \in SUBSET (1..y) /\ S \in SUBSET (1..z) /\ T \cap 1..z = S
  <2>1. T \in SUBSET (1..y)
    BY SoughtGrows
  <2>2. S \in SUBSET (1..z)
    BY SoughtGrows
  <2>3. T \cap 1..z = S
    BY SoughtKept
  <2> QED
    BY <2>1, <2>2, <2>3
<1>2. /\ Cardinality(S) \in Nat /\ Cardinality(T) \in Nat /\ Cardinality(S) <= Cardinality(T)
      /\ SameNumbers(S, T) /\ Numbered(S)
  <2>0. Numbered(S) /\ n \in 1..Cardinality(S)
    OBVIOUS
  <2> HIDE DEF S, T
  <2>1. S \in SUBSET T /\ \A i \in T : i \in S <=> i <= z
    BY <1>1
  <2>2. IsFiniteSet(T) /\ Cardinality(T) \in Nat /\ Cardinality(S) \in Nat
    BY <1>1, SomeLines
  <2>3. Cardinality(S) <= Cardinality(T)
    BY <2>1, <2>2, FS_Subset
  <2> QED
    BY <1>1, <2>0, <2>1, <2>2, <2>3, NthKept
<1>3. n \in 1..Cardinality(S) /\ n \in 1..Cardinality(T)
  BY <1>2
<1>4. /\ FoundIn(r, d, z)[n] = EntryAt(r, d, z, k) /\ FoundIn(r, d, y)[n] = EntryAt(r, d, y, k)
      /\ k \in S
  <2>1. FoundIn(r, d, z)[n] = EntryAt(r, d, z, Nth(S, n))
    BY <1>3 DEF FoundIn
  <2>2. FoundIn(r, d, y)[n] = EntryAt(r, d, y, Nth(T, n))
    BY <1>3 DEF FoundIn
  <2>3. Nth(T, n) = Nth(S, n) /\ Nth(S, n) \in S
    <3> HIDE DEF S, T
    <3> QED
      BY <1>2, <1>3 DEF SameNumbers
  <2> QED
    BY <2>1, <2>2, <2>3
<1>5. EntryAt(r, d, y, k).name = EntryAt(r, d, z, k).name
  BY DEF EntryAt
<1>6. ASSUME r.output # "blocks"
      PROVE  EntryAt(r, d, y, k) = EntryAt(r, d, z, k)
  BY <1>6 DEF EntryAt
<1>7. ASSUME r.output = "blocks", n < Cardinality(S)
      PROVE  EntryAt(r, d, y, k) = EntryAt(r, d, z, k)
  <2> DEFINE h == Nth(S, n + 1)
  <2>1. n + 1 \in 1..Cardinality(S)
    BY <1>2, <1>7
  <2>2. /\ h \in S /\ Cardinality(S \cap 1..h) = n + 1
        /\ k \in S /\ Cardinality(S \cap 1..k) = n
    <3> HIDE DEF S
    <3> QED
      BY <1>2, <1>3, <2>1 DEF Numbered
  <2>3. k \in 1..z /\ h \in 1..z
    BY <1>1, <2>2
  <2>4. d[h].kind = "head"
    BY <1>7, <2>2 DEF Sought
  <2> HIDE DEF S, k, h
  <2>5. k < h
    <3> SUFFICES ASSUME h <= k PROVE FALSE
      BY <2>3
    <3>1. S \cap 1..h \in SUBSET (S \cap 1..k)
      BY <2>3
    <3>2. IsFiniteSet(S \cap 1..k)
      BY <1>1, <2>3, SomeLines
    <3>3. n + 1 <= n
      BY <2>2, <3>1, <3>2, FS_Subset
    <3> QED
      BY <3>3
  <2>6. HeadIn(d, k + 1, z)
    BY <2>3, <2>4, <2>5 DEF HeadIn
  <2>7. ItemsUnder(d, k, y) = ItemsUnder(d, k, z)
    BY <2>3, <2>6, ItemsClosed
  <2> QED
    BY <2>7 DEF EntryAt
<1> QED
  BY <1>3, <1>4, <1>5, <1>6, <1>7 DEF S

\* Before the first line.
LEMMA NothingSoughtYet ==
  ASSUME NEW r \in Reader, Plain(r), NEW d, NEW z \in Nat, Sought(r, d, z) = {}
  PROVE  Progress(r, d, z, NoBlock, <<>>)
<1>1. Cardinality(Sought(r, d, z)) = 0
  BY FS_EmptySet
<1>2. FoundIn(r, d, z) = <<>>
  BY <1>1 DEF FoundIn
<1>3. Numbered(Sought(r, d, z))
  BY <1>1 DEF Numbered
<1>4. OpenBlock(r, d, z, NoBlock)
  BY Entries DEF OpenBlock
<1>5. WithRoom(r, <<>>)
  BY DEF WithRoom, Filled, Plain
<1> QED
  BY <1>2, <1>3, <1>4, <1>5, Entries DEF Progress

\* What ReadersAreExact and CapSparesAllButLast say of a result.
IsExact(r, d, res) == res = Found(r, d) \o r.offers \/ Filled(r, res)

IsFirst(r, d, res) ==
  Filled(r, res) =>
    LET found == Found(r, d)
        last == Len(res)
    IN /\ last <= Len(found) /\ last \in r.room
       /\ \A n \in 1..last : res[n].name = found[n].name
       /\ \A n \in 1..last : res[n].vals =
            IF r.output = "blocks" /\ n = last THEN {} ELSE found[n].vals

\* What a loop ends with.
LEMMA LoopEnds ==
  ASSUME NEW r \in Reader, Plain(r), NEW d \in Seq(Line), NEW z \in 0..Len(d),
         NEW blk \in Entry, NEW res \in Seq(Entry), Progress(r, d, z, blk, res),
         z = Len(d) \/ Filled(r, res)
  PROVE  LET all == IF r.defers /\ blk.name # Template THEN Append(res, blk) ELSE res \o r.offers
         IN IsExact(r, d, all) /\ IsFirst(r, d, all)
<1> DEFINE all == IF r.defers /\ blk.name # Template THEN Append(res, blk) ELSE res \o r.offers
<1>0. Len(d) \in Nat /\ z \in Nat /\ z <= Len(d) /\ Len(res) \in Nat
  BY LenProperties
<1>1. CASE r.room = {}
  <2>1. \A s : ~Filled(r, s)
    BY <1>1 DEF Filled
  <2>2. Found(r, d) = IF r.defers /\ blk.name # Template THEN Append(res, blk) ELSE res
    BY <2>1 DEF Found, Progress
  <2>3. r.defers => r.offers = <<>>
    BY DEF Plain
  <2>4. Append(res, blk) \o <<>> = Append(res, blk)
    BY AppendProperties, ConcatEmptySeq
  <2> QED
    BY <2>1, <2>2, <2>3, <2>4 DEF IsExact, IsFirst
<1>2. CASE r.room # {}
  <2>1. PICK m \in Nat \ {0} : r.room = {m}
    BY <1>2 DEF Plain
  <2>2. ~r.defers /\ r.offers = <<>>
    BY <1>2 DEF Plain
  <2>3. all = res
    BY <2>2, ConcatEmptySeq
  <2>4. FoundIn(r, d, z) = res /\ Numbered(Sought(r, d, z)) /\ WithRoom(r, res)
    BY <2>2 DEF Progress
  <2>5. IsExact(r, d, res)
    <3>1. CASE Filled(r, res)
      BY <3>1 DEF IsExact
    <3>2. CASE ~Filled(r, res)
      <4>1. Found(r, d) = res
        BY <2>4, <3>2 DEF Found
      <4> QED
        BY <2>2, <4>1, ConcatEmptySeq DEF IsExact
    <3> QED
      BY <3>1, <3>2
  <2>6. ASSUME Filled(r, res)
        PROVE  /\ Len(res) <= Len(Found(r, d)) /\ Len(res) \in r.room
               /\ \A n \in 1..Len(res) : res[n].name = Found(r, d)[n].name
               /\ \A n \in 1..Len(res) : res[n].vals =
                    IF r.output = "blocks" /\ n = Len(res) THEN {} ELSE Found(r, d)[n].vals
    <3>1. Len(res) = m
      BY <1>0, <2>1, <2>4, <2>6 DEF WithRoom, Filled
    <3>2. Cardinality(Sought(r, d, z)) = Len(res)
      BY <1>0, <2>4, FoundLength
    <3>3. \A n \in 1..Len(res) :
            /\ n \in 1..Cardinality(Sought(r, d, Len(d)))
            /\ Found(r, d)[n].name = res[n].name
            /\ r.output # "blocks" \/ n < Len(res) => Found(r, d)[n].vals = res[n].vals
      BY <1>0, <2>4, <3>2, FoundPrefix DEF Found
    <3>4. Len(res) <= Len(Found(r, d))
      <4>1. Cardinality(Sought(r, d, Len(d))) \in Nat
        BY <1>0, SoughtGrows, SomeLines
      <4>2. Found(r, d) = [n \in 1..Cardinality(Sought(r, d, Len(d))) |->
                             EntryAt(r, d, Len(d), Nth(Sought(r, d, Len(d)), n))]
        BY DEF Found, FoundIn
      <4>3. Len(Found(r, d)) = Cardinality(Sought(r, d, Len(d)))
        BY <4>1, <4>2
      <4>4. Len(res) \in 1..Len(res)
        BY <3>1
      <4> QED
        BY <3>3, <4>3, <4>4
    <3>5. r.output = "blocks" => res[Len(res)].vals = {}
      BY <2>4, <2>6 DEF WithRoom
    <3>6. ASSUME NEW n \in 1..Len(res)
          PROVE  res[n].vals =
                   IF r.output = "blocks" /\ n = Len(res) THEN {} ELSE Found(r, d)[n].vals
      <4>1. n < Len(res) \/ n = Len(res)
        BY <1>0
      <4> QED
        BY <3>3, <3>5, <4>1
    <3> QED
      BY <2>1, <3>1, <3>3, <3>4, <3>6
  <2> QED
    BY <2>3, <2>5, <2>6 DEF IsFirst
<1> QED
  BY <1>1, <1>2

-----------------------------------------------------------------------------
(* Every reader is exact.                                                  *)

\* The lines looked at.
Looked == Shorter(at - 1, Len(printed))

\* The invariant: as long as what is taken apart is what was printed, the reader
\* makes progress.
Exact ==
  /\ reader \in Readers
  /\ phase = "read" => at = 1 /\ block = NoBlock /\ result = <<>>
  /\ phase = "parse" /\ text = printed => Progress(reader, printed, Looked, block, result)
  /\ phase = "done" /\ text = printed =>
       IsExact(reader, printed, result) /\ IsFirst(reader, printed, result)

\* A reader that begins has found what there is in the lines it leaves out.
LEMMA ExactStart ==
  ASSUME TypeOK, Exact, phase = "read", StartParsing
  PROVE  Exact'
<1>1. /\ reader' = reader /\ printed' = printed /\ block' = NoBlock /\ result' = <<>>
      /\ phase' = "parse" /\ at' = IF reader.skips THEN 2 ELSE 1
  BY DEF StartParsing, job, Exact
<1>2. reader \in Reader /\ Plain(reader) /\ printed \in Outputs /\ Len(printed) \in Nat
  BY ReadersArePlain, Outlines DEF Exact, TypeOK
<1> DEFINE z == Shorter(at' - 1, Len(printed))
<1>3. z \in Nat /\ (z = 0 \/ (z = 1 /\ reader.skips /\ Len(printed) # 0))
  <2>1. CASE reader.skips
    <3>1. at' - 1 = 1
      BY <1>1, <2>1
    <3>2. \A n \in Nat : Shorter(1, n) = IF n = 0 THEN 0 ELSE 1
      BY DEF Shorter
    <3> QED
      BY <1>2, <2>1, <3>1, <3>2
  <2>2. CASE ~reader.skips
    <3>1. at' - 1 = 0
      BY <1>1, <2>2
    <3> QED
      BY <1>2, <3>1 DEF Shorter
  <2> QED
    BY <2>1, <2>2
<1>4. Sought(reader, printed, z) = {}
  <2> HIDE DEF z
  <2>1. CASE z = 0
    BY <2>1 DEF Sought
  <2>2. CASE z = 1 /\ reader.skips /\ Len(printed) # 0
    <3>1. printed # <<>> /\ reader.output = "rows"
      BY <1>2, <2>2 DEF Plain
    <3>2. printed[1].kind # "row"
      BY <1>2, <3>1, TitleAssumption
    <3> QED
      BY <2>2, <3>1, <3>2 DEF Sought
  <2> QED
    BY <1>3, <2>1, <2>2
<1>5. Progress(reader, printed, z, NoBlock, <<>>)
  <2>1. z \in Nat
    BY <1>3
  <2> HIDE DEF z
  <2> QED
    BY <1>2, <1>4, <2>1, NothingSoughtYet
<1> QED
  BY <1>1, <1>5 DEF Exact, Looked

\* What is looked at is the line after those looked at.
LEMMA LookingOn ==
  ASSUME TypeOK, Exact, NEW K, Look(K), text = printed
  PROVE  /\ reader \in Reader /\ Plain(reader) /\ block \in Entry /\ result \in Seq(Entry)
         /\ at - 1 \in Nat /\ (at - 1) + 1 = at /\ printed[at] \in Line
         /\ Progress(reader, printed, at - 1, block, result) /\ ~Filled(reader, result)
         /\ printed[at].kind \in K
<1>1. at \in 1..Len(printed) /\ Len(printed) \in Nat
  BY LenProperties DEF TypeOK, Look
<1>2. Looked = at - 1
  BY <1>1 DEF Looked, Shorter
<1>3. Progress(reader, printed, at - 1, block, result)
  BY <1>2 DEF Exact, Look
<1>4. printed[at] \in Line
  BY <1>1, Outlines DEF TypeOK
<1>5. ~Filled(reader, result)
  BY DEF Look, Full, Filled
<1>6. Plain(reader)
  BY ReadersArePlain DEF Exact
<1> QED
  BY <1>1, <1>3, <1>4, <1>5, <1>6 DEF TypeOK, Look

\* If there is progress with the line looked at, the invariant is kept.
LEMMA ExactKept ==
  ASSUME TypeOK, Exact, NEW K, Look(K),
         text = printed => Progress(reader, printed, (at - 1) + 1, block', result')
  PROVE  Exact'
<1>1. /\ reader' = reader /\ printed' = printed /\ text' = text /\ at' = at + 1
      /\ phase' = "parse"
  BY DEF Look, job, buffer
<1>2. ASSUME text = printed
      PROVE  Shorter(at' - 1, Len(printed)) = (at - 1) + 1
  <2>1. at \in 1..Len(printed) /\ Len(printed) \in Nat
    BY <1>2, LenProperties DEF TypeOK, Look
  <2> QED
    BY <1>1, <2>1 DEF Shorter
<1> QED
  BY <1>1, <1>2 DEF Exact, Looked

\* Whatever is looked at of an output that was read whole, the entries are those of
\* the lines looked at.
LEMMA ExactInvariant == Spec => []Exact
<1>1. Init => Exact
  BY DEF Init, Exact
<1>2. TypeOK /\ Exact /\ [Next]_vars => Exact'
  <2> SUFFICES ASSUME TypeOK, Exact, [Next]_vars PROVE Exact'
    OBVIOUS
  <2>0. reader \in Reader /\ Plain(reader)
    BY ReadersArePlain DEF Exact, TypeOK
  <2>1. ASSUME phase = "read", KeepReading
        PROVE  Exact'
    BY <2>1 DEF KeepReading, job, Exact
  <2>2. CASE ReadChunk
    BY <2>1, <2>2, ExactStart DEF ReadChunk
  <2>3. CASE ReadPiece
    BY <2>1, <2>3 DEF ReadPiece
  <2>4. CASE LastPiece
    BY <2>4, ExactStart DEF LastPiece
  <2>5. CASE ReadFails
    <3>1. /\ reader' = reader /\ printed' = printed /\ phase' = "done" /\ text' = <<>>
          /\ result' = reader.offers
      BY <2>5 DEF ReadFails, job
    <3>2. Sought(reader, <<>>, 0) = {}
      BY DEF Sought
    <3>3. Progress(reader, <<>>, 0, NoBlock, <<>>)
      BY <2>0, <3>2, NothingSoughtYet
    <3>4. <<>> \in Seq(Line) /\ 0 \in 0..Len(<<>>) /\ 0 = Len(<<>>)
          /\ <<>> \in Seq(Entry) /\ NoBlock \in Entry /\ NoBlock.name = Template
      BY EmptySeq, Entries
    <3>5. /\ IsExact(reader, <<>>, <<>> \o reader.offers)
          /\ IsFirst(reader, <<>>, <<>> \o reader.offers)
      BY <2>0, <3>3, <3>4, LoopEnds
    <3>6. <<>> \o reader.offers = reader.offers
      BY <2>0, ReaderFields, OffersType, ConcatEmptySeq
    <3> QED
      BY <3>1, <3>5, <3>6 DEF Exact
  <2>6. CASE ReadRow
    <3>1. Look(Kinds) /\ block' = block /\ reader.output = "rows"
      BY <2>6 DEF ReadRow
    <3>2. ASSUME text = printed
          PROVE  Progress(reader, printed, (at - 1) + 1, block', result')
      BY <2>6, <3>1, <3>2, LookingOn, RowProgress DEF ReadRow
    <3> QED
      BY <3>1, <3>2, ExactKept
  <2>7. CASE ReadHead
    <3>1. Look({"head"}) /\ reader.output = "blocks"
      BY <2>7 DEF ReadHead
    <3>2. ASSUME text = printed
          PROVE  Progress(reader, printed, (at - 1) + 1, block', result')
      BY <2>7, <3>1, <3>2, LookingOn, HeadProgress DEF ReadHead
    <3> QED
      BY <3>1, <3>2, ExactKept
  <2>8. CASE ReadItem
    <3>1. Look({"item"}) /\ reader.output = "blocks"
      BY <2>8 DEF ReadItem
    <3>2. ASSUME text = printed
          PROVE  Progress(reader, printed, (at - 1) + 1, block', result')
      <4>1. /\ block' = IF reader.defers THEN [block EXCEPT !.vals = @ \cup {printed[at].val}]
                        ELSE block
            /\ result' = IF reader.defers \/ block.name = Template THEN result
                         ELSE Added(result, Len(result), printed[at].val)
        BY <2>8, <3>2 DEF ReadItem, Added
      <4> QED
        BY <3>1, <3>2, <4>1, LookingOn, ItemProgress
    <3> QED
      BY <3>1, <3>2, ExactKept
  <2>9. CASE ReadAnyItem
    <3>1. Look(Kinds) /\ reader.output = "items" /\ block' = block
      BY <2>9 DEF ReadAnyItem
    <3>2. ASSUME text = printed
          PROVE  Progress(reader, printed, (at - 1) + 1, block', result')
      <4>1. PICK asked \in reader.wanted :
              result' = IF printed[at].kind = "item"
                        THEN Append(result, [name |-> asked, vals |-> {printed[at].val}])
                        ELSE result
        BY <2>9, <3>2 DEF ReadAnyItem
      <4> QED
        BY <3>1, <3>2, <4>1, LookingOn, AnyItemProgress
    <3> QED
      BY <3>1, <3>2, ExactKept
  <2>10. CASE SkipLine
    <3>1. Look(Kinds \ {"head", "item"}) /\ reader.output = "blocks"
          /\ block' = block /\ result' = result
      BY <2>10 DEF SkipLine
    <3>2. ASSUME text = printed
          PROVE  Progress(reader, printed, (at - 1) + 1, block', result')
      BY <3>1, <3>2, LookingOn, SkipProgress
    <3> QED
      BY <3>1, <3>2, ExactKept
  <2>11. CASE Finish
    <3>1. /\ reader' = reader /\ printed' = printed /\ phase' = "done" /\ text' = text
          /\ result' = IF reader.defers /\ block.name # Template THEN Append(result, block)
                       ELSE result \o reader.offers
      BY <2>11 DEF Finish, job, buffer
    <3>2. ASSUME text = printed
          PROVE  IsExact(reader, printed, result') /\ IsFirst(reader, printed, result')
      <4>1. printed \in Seq(Line) /\ Len(printed) \in Nat
        BY Outlines DEF TypeOK
      <4>2. Looked \in 0..Len(printed) /\ (at > Len(printed) => Looked = Len(printed))
        BY <4>1 DEF Looked, Shorter, TypeOK
      <4>3. Looked = Len(printed) \/ Filled(reader, result)
        BY <2>11, <3>2, <4>2 DEF Finish, Full, Filled
      <4>4. Progress(reader, printed, Looked, block, result)
        BY <2>11, <3>2 DEF Finish, Exact
      <4>5. block \in Entry /\ result \in Seq(Entry)
        BY DEF TypeOK
      <4> QED
        BY <2>0, <3>1, <4>1, <4>2, <4>3, <4>4, <4>5, LoopEnds
    <3> QED
      BY <3>1, <3>2 DEF Exact
  <2>12. CASE UNCHANGED vars
    BY <2>12 DEF vars, job, buffer, Exact, Looked
  <2> QED
    BY <2>2, <2>3, <2>4, <2>5, <2>6, <2>7, <2>8, <2>9, <2>10, <2>11, <2>12 DEF Next
<1> QED
  BY <1>1, <1>2, ReadersTypeCorrect, PTL DEF Spec

\* Of an output that is read whole every reader finds exactly the entries, each with
\* its own values, unless there are more than its caller has room for.
THEOREM ReadersAlwaysExact == Spec => []ReadersAreExact
<1>1. Exact => ReadersAreExact
  BY DEF Exact, ReadersAreExact, IsExact, Full, Filled
<1> QED
  BY <1>1, ExactInvariant, PTL

\* If there are, they are the first ones, and only the last bond lacks its lines.
THEOREM CapAlwaysSparesAllButLast == Spec => []CapSparesAllButLast
<1>1. Exact => CapSparesAllButLast
  BY DEF Exact, CapSparesAllButLast, IsFirst, Full, Filled
<1> QED
  BY <1>1, ExactInvariant, PTL

=============================================================================

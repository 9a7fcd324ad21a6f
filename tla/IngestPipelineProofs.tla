------------------------ MODULE IngestPipelineProofs ------------------------
(***************************************************************************)
(* Proofs about IngestPipeline, for every plan, every number of readers,   *)
(* every batch size and every number of faults.                            *)
(***************************************************************************)
EXTENDS IngestPipeline, SetLemmas, SequenceTheorems

LEMMA BatchIsFinite ==
    ASSUME NEW f, NEW v, NEW lo \in Nat, NEW hi \in Nat
    PROVE  /\ IsFiniteSet(GoodRows(f, v, lo, hi))
           /\ Cardinality(GoodRows(f, v, lo, hi)) \in Nat
           /\ Cardinality(KeysIn(f, v, lo, hi)) \in Nat
<1>1. IsFiniteSet(GoodRows(f, v, lo, hi))
  <2>1. IsFiniteSet(lo + 1 .. hi)
    BY FS_Interval
  <2>2. GoodRows(f, v, lo, hi) \subseteq lo + 1 .. hi
    BY DEF GoodRows
  <2> QED BY <2>1, <2>2, FS_Subset
<1>2. IsFiniteSet(KeysIn(f, v, lo, hi))
  <2> DEFINE G == GoodRows(f, v, lo, hi)
             K == KeysIn(f, v, lo, hi)
             key == [i \in G |-> Content[f][v][i]]
  <2>1. key \in Surjection(G, K)
    BY DEF KeysIn, Surjection
  <2> QED BY <1>1, <2>1, FS_Surjection
<1> QED BY <1>1, <1>2, FS_CardinalityType
-----------------------------------------------------------------------------
(* Type correctness.                                                       *)

LEMMA InitTypeOK == Init => TypeOK
<1> USE SourceFilesAssumption, PipelineAssumption
<1> SUFFICES ASSUME Init PROVE TypeOK
  OBVIOUS
<1>1. DurableTypes
  BY DEF Init, DurableTypes, VersionOrNone
<1>2. RunTypes
  <2>1. cancelled \in BOOLEAN /\ feeding \in BOOLEAN
    BY DEF Init
  <2>2. nextJob \in 1 .. Len(Plan) + 1 /\ faults \in 0 .. MaxFaults
    BY DEF Init
  <2>3. known \in [Files -> VersionOrNone]
    BY DEF Init, VersionOrNone
  <2> QED BY <2>1, <2>2, <2>3 DEF Init, RunTypes, Outcomes
<1>3. ReaderTypes
  BY DEF Init, ReaderTypes, VersionOrNone, Stages
<1>4. WriterTypes
  <2>1. writeErr \in BOOLEAN
    BY DEF Init
  <2>2. stats \in RunStats
    BY DEF Init, RunStats, NoStats
  <2>3. chunks \in Seq(Chunk) /\ Len(chunks) <= Workers
    BY DEF Init
  <2> QED BY <2>1, <2>2, <2>3 DEF WriterTypes
<1> QED BY <1>1, <1>2, <1>3, <1>4 DEF TypeOK

\* A fresh process is well typed.
LEMMA FreshTypes ==
    ASSUME Fresh
    PROVE  /\ cancelled' \in BOOLEAN /\ nextJob' \in 1 .. Len(Plan) + 1 /\ feeding' \in BOOLEAN
           /\ ReaderTypes'
           /\ WriterTypes'
<1> USE SourceFilesAssumption, PipelineAssumption
<1>1. ReaderTypes'
  BY DEF Fresh, ReaderTypes, VersionOrNone, Stages
<1>2. WriterTypes'
  <2>1. writeErr' \in BOOLEAN
    BY DEF Fresh
  <2>2. stats' \in RunStats
    BY DEF Fresh, RunStats, NoStats
  <2>3. chunks' \in Seq(Chunk) /\ Len(chunks') <= Workers
    BY DEF Fresh
  <2> QED BY <2>1, <2>2, <2>3 DEF WriterTypes
<1>3. cancelled' \in BOOLEAN /\ feeding' \in BOOLEAN
  BY DEF Fresh
<1>4. nextJob' \in 1 .. Len(Plan) + 1
  BY DEF Fresh
<1> QED BY <1>1, <1>2, <1>3, <1>4

\* What the writer counts is a number, whatever chunk it counts.
LEMMA CountedTypes ==
    ASSUME TypeOK, NEW c \in Chunk, NEW w \in Int, NEW d \in Int
    PROVE  Counted(c, w, d) \in RunStats
<1>1. Cardinality(GoodRows(c.file, content[c.file], c.from, c.to)) \in Nat
  BY BatchIsFinite DEF Chunk
<1>2. c.to \in Nat /\ c.from \in Nat
  BY DEF Chunk
<1>3. stats \in RunStats
  BY DEF TypeOK, WriterTypes
<1> QED BY <1>1, <1>2, <1>3, SMTT(60) DEF Counted, RunStats

LEMMA UpsertedTypes ==
    ASSUME TypeOK, NEW c \in Chunk
    PROVE  Upserted(c) \in [Files -> [Keys -> VersionOrNone]]
  BY DEF Upserted, TypeOK, DurableTypes, ReaderTypes, Chunk

LEMMA UnchangedTypes ==
    ASSUME TypeOK
    PROVE  /\ UNCHANGED durable => DurableTypes'
           /\ UNCHANGED <<run, cancelled, feeder, faults>> => RunTypes'
           /\ UNCHANGED <<upstream, reader>> => ReaderTypes'
           /\ UNCHANGED <<chunks, writer>> => WriterTypes'
<1>1. UNCHANGED durable => DurableTypes'
  BY DEF TypeOK, DurableTypes, durable
<1>2. UNCHANGED <<run, cancelled, feeder, faults>> => RunTypes'
  BY DEF TypeOK, RunTypes, run, feeder
<1>3. UNCHANGED <<upstream, reader>> => ReaderTypes'
  BY DEF TypeOK, ReaderTypes, reader, Rows
<1>4. UNCHANGED <<chunks, writer>> => WriterTypes'
  BY DEF TypeOK, WriterTypes, writer
<1> QED BY <1>1, <1>2, <1>3, <1>4

\* A call that fails keeps the count of faults within its bound.
LEMMA FaultTypes ==
    ASSUME TypeOK, CallFails \/ Fault \/ UNCHANGED faults
    PROVE  faults' \in 0 .. MaxFaults
  BY PipelineAssumption DEF CallFails, Fault, TypeOK, RunTypes

LEMMA NextTypeOK == TypeOK /\ [Next]_vars => TypeOK'
<1> SUFFICES ASSUME TypeOK, [Next]_vars
             PROVE  TypeOK'
  OBVIOUS
<1> USE UnchangedTypes DEF durable, run, feeder, reader, writer
<1>1. ASSUME NEW f \in Files, Publish(f)
      PROVE  TypeOK'
  <2>1. DurableTypes'
    BY <1>1, SourceFilesAssumption
    DEF Publish, Versions, VersionOrNone, TypeOK, DurableTypes
  <2>2. ReaderTypes'
    BY <1>1, SourceFilesAssumption
    DEF Publish, Versions, TypeOK, DurableTypes, ReaderTypes, Rows
  <2> QED BY <1>1, <2>1, <2>2 DEF Publish, TypeOK
<1>2. CASE Cancel
  <2>1. RunTypes'
    BY <1>2, FaultTypes DEF Cancel, TypeOK, RunTypes
  <2> QED BY <1>2, <2>1 DEF Cancel, TypeOK
<1>3. CASE Kill
  <2>1. RunTypes'
    BY <1>3, FaultTypes, FreshTypes, SourceFilesAssumption
    DEF Kill, RunTypes, Outcomes, VersionOrNone
  <2> QED BY <1>3, <2>1, FreshTypes DEF Kill, TypeOK
<1>4. CASE StartRun
  <2>1. RunTypes'
    BY <1>4, FaultTypes, FreshTypes, SourceFilesAssumption
    DEF StartRun, TypeOK, DurableTypes, RunTypes, Outcomes, VersionOrNone
  <2> QED BY <1>4, <2>1, FreshTypes DEF StartRun, TypeOK
<1>5. CASE Feed
  <2>1. RunTypes'
    BY <1>5, PipelineAssumption DEF Feed, TypeOK, RunTypes
  <2>2. ReaderTypes'
    BY <1>5, PipelineAssumption DEF Feed, TypeOK, RunTypes, ReaderTypes, Rows, Stages
  <2> QED BY <1>5, <2>1, <2>2 DEF Feed, TypeOK
<1>6. CASE FeederStops
  <2>1. RunTypes'
    BY <1>6 DEF FeederStops, TypeOK, RunTypes
  <2> QED BY <1>6, <2>1 DEF FeederStops, TypeOK
<1>7. CASE Finish
  <2>1. RunTypes'
    BY <1>7, FaultTypes, FreshTypes, SourceFilesAssumption
    DEF Finish, RunTypes, Outcomes, VersionOrNone
  <2> QED BY <1>7, <2>1, FreshTypes DEF Finish, TypeOK
<1>8. ASSUME NEW f \in Files, Reader(f)
      PROVE  TypeOK'
  <2> USE DEF MoveTo
  <2>1. CASE Look(f)
    <3>1. PICK s \in {"missing", "unchanged", "found"} :
            /\ stage' = [stage EXCEPT ![f] = s]
            /\ s = "found" => upstream[f] # 0
      BY <2>1 DEF Look
    <3>2. tag' \in [Files -> VersionOrNone]
      <4>1. upstream[f] \in VersionOrNone /\ 0 \in VersionOrNone
        BY SourceFilesAssumption DEF TypeOK, DurableTypes, VersionOrNone
      <4> QED BY <2>1, <4>1 DEF Look, TypeOK, ReaderTypes
    <3>3. ReaderTypes'
      BY <2>1, <3>1, <3>2 DEF Look, TypeOK, ReaderTypes, Rows, Stages
    <3> QED BY <2>1, <3>3 DEF Look, TypeOK
  <2>2. CASE Open(f)
    <3>1. upstream[f] \in Versions
      BY <2>2, SourceFilesAssumption
      DEF Open, TypeOK, DurableTypes, ReaderTypes, Versions, VersionOrNone
    <3>2. Len(Content[f][upstream[f]]) \in Nat
      BY <3>1, SourceFilesAssumption
    <3>3. ReaderTypes'
      BY <2>2, <3>1, <3>2, SourceFilesAssumption, SMTT(60)
      DEF Open, TypeOK, ReaderTypes, Rows, Stages, Versions, VersionOrNone
    <3> QED BY <2>2, <3>3 DEF Open, TypeOK
  <2>3. CASE OpenFails(f)
    <3>1. ReaderTypes'
      BY <2>3 DEF OpenFails, TypeOK, ReaderTypes, Rows, Stages
    <3>2. RunTypes'
      BY <2>3, FaultTypes DEF OpenFails, TypeOK, RunTypes
    <3> QED BY <2>3, <3>1, <3>2 DEF OpenFails, TypeOK
  <2>4. CASE ReadRow(f)
    <3>1. ReaderTypes'
      BY <2>4 DEF ReadRow, Reading, TypeOK, ReaderTypes, Rows
    <3> QED BY <2>4, <3>1 DEF ReadRow, TypeOK
  <2>5. CASE BodyBreaks(f)
    <3>1. ReaderTypes'
      BY <2>5 DEF BodyBreaks, TypeOK, ReaderTypes, Rows, Stages
    <3>2. RunTypes'
      BY <2>5, FaultTypes DEF BodyBreaks, TypeOK, RunTypes
    <3> QED BY <2>5, <3>1, <3>2 DEF BodyBreaks, TypeOK
  <2>6. CASE RetryBrokenBody(f)
    BY <2>6 DEF RetryBrokenBody, vars, TypeOK
  <2>7. CASE SendBatch(f)
    <3>1. ReaderTypes'
      BY <2>7 DEF SendBatch, Send, Reading, TypeOK, ReaderTypes, Rows
    <3>2. WriterTypes'
      BY <2>7, PipelineAssumption
      DEF SendBatch, Send, Room, TypeOK, ReaderTypes, WriterTypes, Chunk, Kinds
    <3> QED BY <2>7, <3>1, <3>2 DEF SendBatch, TypeOK
  <2>8. CASE SendEnd(f)
    <3>1. ReaderTypes'
      BY <2>8 DEF SendEnd, TypeOK, ReaderTypes, Rows, Stages
    <3>2. WriterTypes'
      BY <2>8, PipelineAssumption DEF SendEnd, Send, Room, TypeOK, WriterTypes, Chunk, Kinds
    <3> QED BY <2>8, <3>1, <3>2 DEF SendEnd, TypeOK
  <2>9. CASE SendMarker(f)
    <3>1. ReaderTypes'
      BY <2>9 DEF SendMarker, TypeOK, ReaderTypes, Rows, Stages
    <3>2. WriterTypes'
      BY <2>9, PipelineAssumption DEF SendMarker, Send, Room, TypeOK, WriterTypes, Chunk, Kinds
    <3> QED BY <2>9, <3>1, <3>2 DEF SendMarker, TypeOK
  <2>10. CASE AbandonSend(f)
    <3>1. ReaderTypes'
      BY <2>10 DEF AbandonSend, TypeOK, ReaderTypes, Rows, Stages
    <3> QED BY <2>10, <3>1 DEF AbandonSend, TypeOK
  <2> QED
    BY <1>8, <2>1, <2>2, <2>3, <2>4, <2>5, <2>6, <2>7, <2>8, <2>9, <2>10 DEF Reader
<1>9. CASE Writer
  <2>0. chunks # <<>> => /\ Head(chunks) \in Chunk
                         /\ Tail(chunks) \in Seq(Chunk)
                         /\ Len(Tail(chunks)) <= Workers
    BY PipelineAssumption DEF TypeOK, WriterTypes
  <2>1. CASE ReceiveMarker
    <3>1. WriterTypes'
      BY <2>1, <2>0 DEF ReceiveMarker, Receives, TypeOK, WriterTypes, RunStats
    <3> QED BY <2>1, <3>1 DEF ReceiveMarker, TypeOK
  <2>2. CASE WriteBatch
    <3> DEFINE c == Head(chunks)
               good == Cardinality(GoodRows(c.file, content[c.file], c.from, c.to))
               matches == Cardinality(KeysIn(c.file, content[c.file], c.from, c.to))
    <3>1. c \in Chunk /\ db' = Upserted(c) /\ stats' = Counted(c, matches, good - matches)
      BY <2>0, <2>2 DEF WriteBatch, Receives
    <3>2. good \in Nat /\ matches \in Nat
      BY <3>1, BatchIsFinite DEF Chunk
    <3>3. stats' \in RunStats
      BY <3>1, <3>2, CountedTypes
    <3>4. DurableTypes'
      BY <2>2, <3>1, UpsertedTypes DEF WriteBatch, TypeOK, DurableTypes
    <3>5. WriterTypes'
      BY <2>0, <2>2, <3>3 DEF WriteBatch, Receives, TypeOK, WriterTypes
    <3> QED BY <2>2, <3>4, <3>5 DEF WriteBatch, TypeOK
  <2>3. CASE WriteFails
    <3>1. DurableTypes'
      BY <2>3, <2>0, UpsertedTypes DEF WriteFails, Receives, TypeOK, DurableTypes
    <3>2. WriterTypes'
      BY <2>3, <2>0, CountedTypes DEF WriteFails, Receives, TypeOK, WriterTypes
    <3>3. RunTypes'
      BY <2>3, FaultTypes DEF WriteFails, TypeOK, RunTypes
    <3> QED BY <2>3, <3>1, <3>2, <3>3 DEF WriteFails, TypeOK
  <2>4. CASE DrainBatch
    <3>1. WriterTypes'
      BY <2>4, <2>0, CountedTypes DEF DrainBatch, Receives, TypeOK, WriterTypes
    <3> QED BY <2>4, <3>1 DEF DrainBatch, TypeOK
  <2>5. CASE EndFile
    <3>1. DurableTypes'
      BY <2>5, <2>0 DEF EndFile, Receives, TypeOK, DurableTypes, ReaderTypes, Chunk
    <3>2. WriterTypes'
      BY <2>5, <2>0 DEF EndFile, Receives, TypeOK, WriterTypes, RunStats
    <3>3. RunTypes'
      BY <2>5, FaultTypes DEF EndFile, TypeOK, RunTypes
    <3> QED BY <2>5, <3>1, <3>2, <3>3 DEF EndFile, TypeOK
  <2> QED BY <1>9, <2>1, <2>2, <2>3, <2>4, <2>5 DEF Writer
<1>10. CASE UNCHANGED vars
  BY <1>10 DEF vars, TypeOK
<1> QED BY <1>1, <1>2, <1>3, <1>4, <1>5, <1>6, <1>7, <1>8, <1>9, <1>10 DEF Next

\* Every variable of the pipeline keeps its type and chunkCh its capacity.
THEOREM TypeCorrect == Spec => []TypeOK
  BY InitTypeOK, NextTypeOK, PTL DEF Spec
-----------------------------------------------------------------------------
(* The inductive invariant, conjunct by conjunct.                          *)

\* A file is opened once a run: what has been opened is not opened or handed out again.
LEMMA NextReaderInv == TypeOK /\ ReaderInv /\ [Next]_vars => ReaderInv'
<1> SUFFICES ASSUME TypeOK, ReaderInv, [Next]_vars
             PROVE  ReaderInv'
  OBVIOUS
<1> USE PipelineAssumption DEF durable, run, feeder, reader, writer, MoveTo
<1>0. /\ stage \in [Files -> Stages] /\ content \in [Files -> VersionOrNone]
      /\ pos \in [Files -> Nat] /\ nextJob \in 1 .. Len(Plan) + 1
  BY DEF TypeOK, ReaderTypes, RunTypes
<1>1. CASE UNCHANGED <<nextJob, stage, content, pos>>
  BY <1>1 DEF ReaderInv, Rows
<1>2. CASE Fresh
  BY <1>2 DEF Fresh, ReaderInv
<1>3. CASE Feed
  <2>1. /\ nextJob' = nextJob + 1 /\ UNCHANGED <<content, pos>>
        /\ stage' = [stage EXCEPT ![Plan[nextJob]] = "handed"]
        /\ nextJob \in 1 .. Len(Plan)
    BY <1>3, <1>0 DEF Feed
  <2>2. ASSUME NEW i \in nextJob' .. Len(Plan)
        PROVE  stage'[Plan[i]] = "planned"
    BY <1>0, <2>1, <2>2 DEF ReaderInv
  <2>3. \A f \in Files : stage'[f] # stage[f] => stage[f] = "planned"
    BY <1>0, <2>1 DEF ReaderInv
  <2> QED BY <1>0, <2>1, <2>2, <2>3 DEF ReaderInv, Rows
<1>4. ASSUME NEW f \in Files, Reader(f)
      PROVE  ReaderInv'
  <2>1. ASSUME stage[f] # "planned", UNCHANGED <<nextJob, content, pos>>,
               NEW s, stage' = [stage EXCEPT ![f] = s],
               s \in {"planned", "handed", "found", "missing", "unchanged"} => content[f] = 0
        PROVE  ReaderInv'
    BY <1>0, <2>1 DEF ReaderInv, Rows
  <2>2. CASE Look(f)
    <3>1. PICK s \in {"missing", "unchanged", "found"} : stage' = [stage EXCEPT ![f] = s]
      BY <2>2 DEF Look
    <3> QED BY <2>1, <2>2, <3>1 DEF Look, Handed, ReaderInv
  <2>3. CASE Open(f)
    <3>1. /\ stage[f] = "found" /\ stage' = [stage EXCEPT ![f] = "reading"]
          /\ content' = [content EXCEPT ![f] = upstream[f]]
          /\ pos' = [pos EXCEPT ![f] = 0] /\ nextJob' = nextJob
      BY <2>3 DEF Open
    <3>2. upstream[f] \in Versions
      BY <3>1, SourceFilesAssumption
      DEF TypeOK, DurableTypes, ReaderTypes, Versions, VersionOrNone
    <3>3. 0 <= Len(Content[f][upstream[f]])
      BY <3>2, SourceFilesAssumption
    <3>4. \A i \in nextJob .. Len(Plan) : Plan[i] # f
      BY <3>1 DEF ReaderInv
    <3> QED BY <1>0, <3>1, <3>3, <3>4 DEF ReaderInv, Rows
  <2>4. CASE OpenFails(f)
    BY <2>1, <2>4 DEF OpenFails
  <2>5. CASE ReadRow(f)
    BY <1>0, <2>5 DEF ReadRow, ReaderInv, Rows
  <2>6. CASE BodyBreaks(f)
    BY <2>1, <2>6 DEF BodyBreaks, Reading
  <2>7. CASE SendEnd(f)
    BY <2>1, <2>7 DEF SendEnd, Reading
  <2>8. CASE SendMarker(f)
    BY <2>1, <2>8 DEF SendMarker
  <2>9. CASE AbandonSend(f)
    <3>1. PICK s \in {"done", "failed"} : stage' = [stage EXCEPT ![f] = s]
      BY <2>9 DEF AbandonSend
    <3> QED BY <2>1, <2>9, <3>1 DEF AbandonSend, Reading
  <2>10. CASE SendBatch(f) \/ RetryBrokenBody(f)
    BY <1>1, <2>10 DEF SendBatch, RetryBrokenBody, vars
  <2> QED BY <1>4, <2>2, <2>3, <2>4, <2>5, <2>6, <2>7, <2>8, <2>9, <2>10 DEF Reader
<1>5. CASE \/ \E f \in Files : Publish(f)
           \/ Cancel \/ FeederStops \/ Writer \/ UNCHANGED vars
  BY <1>1, <1>5 DEF Publish, Cancel, FeederStops, Writer, ReceiveMarker, WriteBatch,
     WriteFails, DrainBatch, EndFile, vars
<1>6. CASE Kill \/ StartRun \/ Finish
  BY <1>2, <1>6 DEF Kill, StartRun, Finish
<1> QED BY <1>3, <1>4, <1>5, <1>6 DEF Next

\* The writer takes chunks in the order the readers sent them.
LEMMA NextChannelInv == TypeOK /\ ReaderInv /\ ChannelInv /\ [Next]_vars => ChannelInv'
<1> SUFFICES ASSUME TypeOK, ReaderInv, ChannelInv, [Next]_vars
             PROVE  ChannelInv'
  OBVIOUS
<1> USE PipelineAssumption DEF durable, run, feeder, reader, writer, MoveTo
<1>0. /\ stage \in [Files -> Stages] /\ content \in [Files -> VersionOrNone]
      /\ sent \in [Files -> Nat] /\ pos \in [Files -> Nat]
      /\ nextJob \in 1 .. Len(Plan) + 1
      /\ chunks \in Seq(Chunk)
  BY DEF TypeOK, ReaderTypes, RunTypes, WriterTypes
<1>r. ASSUME NEW n \in 1 .. Len(chunks)
      PROVE  /\ chunks[n].file \in Files
             /\ chunks[n].kind = "rows" =>
                  /\ content[chunks[n].file] # 0
                  /\ chunks[n].to \in Nat /\ chunks[n].to <= sent[chunks[n].file]
             /\ chunks[n].kind = "end" =>
                  /\ content[chunks[n].file] # 0 /\ stage[chunks[n].file] = "done"
                  /\ sent[chunks[n].file] = Len(Content[chunks[n].file][content[chunks[n].file]])
                  /\ \A m \in n + 1 .. Len(chunks) : chunks[m].file # chunks[n].file
  <2>1. chunks[n] \in Chunk
    BY <1>0
  <2>2. chunks[n].file \in Files /\ chunks[n].to \in Nat
    BY <2>1 DEF Chunk
  <2> QED BY <2>2 DEF ChannelInv, Rows
<1>1. ASSUME UNCHANGED chunks,
             sent' \in [Files -> Nat],
             \A g \in Files : content[g] # 0 => content'[g] = content[g] /\ sent[g] <= sent'[g],
             \A g \in Files : stage[g] = "done" => stage'[g] = "done" /\ sent'[g] = sent[g]
      PROVE  ChannelInv'
  <2>1. ASSUME NEW n \in 1 .. Len(chunks), chunks[n].kind = "rows"
        PROVE  content'[chunks[n].file] # 0 /\ chunks[n].to <= sent'[chunks[n].file]
    BY <1>0, <1>1, <1>r, <2>1
  <2>2. ASSUME NEW n \in 1 .. Len(chunks), chunks[n].kind = "end"
        PROVE  /\ content'[chunks[n].file] # 0 /\ stage'[chunks[n].file] = "done"
               /\ sent'[chunks[n].file] = Len(Content[chunks[n].file][content'[chunks[n].file]])
               /\ \A m \in n + 1 .. Len(chunks) : chunks[m].file # chunks[n].file
    BY <1>0, <1>1, <1>r, <2>2
  <2> QED BY <1>1, <2>1, <2>2 DEF ChannelInv, Rows
<1>2. ASSUME chunks # <<>>, chunks' = Tail(chunks), UNCHANGED <<stage, content, sent>>
      PROVE  ChannelInv'
  <2>1. /\ Len(chunks') = Len(chunks) - 1
        /\ \A n \in 1 .. Len(chunks') : chunks'[n] = chunks[n + 1]
    BY <1>0, <1>2
  <2>2. ASSUME NEW n \in 1 .. Len(chunks'), chunks'[n].kind = "rows"
        PROVE  content'[chunks'[n].file] # 0 /\ chunks'[n].to <= sent'[chunks'[n].file]
    <3>1. n + 1 \in 1 .. Len(chunks) /\ chunks'[n] = chunks[n + 1]
      BY <1>0, <2>1, <2>2
    <3> QED BY <1>2, <1>r, <2>2, <3>1
  <2>3. ASSUME NEW n \in 1 .. Len(chunks'), chunks'[n].kind = "end"
        PROVE  /\ content'[chunks'[n].file] # 0 /\ stage'[chunks'[n].file] = "done"
               /\ sent'[chunks'[n].file] = Len(Content[chunks'[n].file][content'[chunks'[n].file]])
               /\ \A m \in n + 1 .. Len(chunks') : chunks'[m].file # chunks'[n].file
    <3>1. n + 1 \in 1 .. Len(chunks) /\ chunks'[n] = chunks[n + 1]
      BY <1>0, <2>1, <2>3
    <3>2. ASSUME NEW m \in n + 1 .. Len(chunks')
          PROVE  chunks'[m].file # chunks'[n].file
      <4>1. m + 1 \in (n + 1) + 1 .. Len(chunks) /\ chunks'[m] = chunks[m + 1]
        BY <1>0, <2>1, <3>2
      <4> QED BY <1>r, <2>3, <3>1, <4>1
    <3> QED BY <1>2, <1>r, <2>3, <3>1, <3>2
  <2> QED BY <2>2, <2>3 DEF ChannelInv, Rows
<1>3. ASSUME NEW c \in Chunk, chunks' = Append(chunks, c), stage[c.file] # "done",
             sent' \in [Files -> Nat], content' = content,
             \A g \in Files : /\ sent[g] <= sent'[g]
                              /\ stage[g] = "done" => stage'[g] = "done" /\ sent'[g] = sent[g],
             c.kind = "rows" => content[c.file] # 0 /\ c.to <= sent'[c.file],
             c.kind = "end" => /\ content[c.file] # 0 /\ stage'[c.file] = "done"
                               /\ sent'[c.file] = Rows(c.file)
      PROVE  ChannelInv'
  <2>1. /\ Len(chunks') = Len(chunks) + 1
        /\ \A n \in 1 .. Len(chunks) : chunks'[n] = chunks[n]
        /\ chunks'[Len(chunks) + 1] = c
    BY <1>0, <1>3
  <2>2. ASSUME NEW n \in 1 .. Len(chunks), chunks[n].kind = "rows"
        PROVE  content'[chunks[n].file] # 0 /\ chunks[n].to <= sent'[chunks[n].file]
    BY <1>0, <1>3, <1>r, <2>2
  <2>3. ASSUME NEW n \in 1 .. Len(chunks), chunks[n].kind = "end"
        PROVE  /\ content'[chunks[n].file] # 0 /\ stage'[chunks[n].file] = "done"
               /\ sent'[chunks[n].file] = Len(Content[chunks[n].file][content'[chunks[n].file]])
               /\ chunks[n].file # c.file
               /\ \A m \in n + 1 .. Len(chunks) : chunks[m].file # chunks[n].file
    BY <1>0, <1>3, <1>r, <2>3
  <2>4. ASSUME c.kind = "end"
        PROVE  /\ content'[c.file] # 0 /\ stage'[c.file] = "done"
               /\ sent'[c.file] = Len(Content[c.file][content'[c.file]])
    BY <1>3, <2>4 DEF Rows
  <2>5. ASSUME NEW n \in 1 .. Len(chunks'), chunks'[n].kind = "rows"
        PROVE  content'[chunks'[n].file] # 0 /\ chunks'[n].to <= sent'[chunks'[n].file]
    BY <1>0, <1>3, <2>1, <2>2, <2>5
  <2>6. ASSUME NEW n \in 1 .. Len(chunks'), chunks'[n].kind = "end"
        PROVE  /\ content'[chunks'[n].file] # 0 /\ stage'[chunks'[n].file] = "done"
               /\ sent'[chunks'[n].file] = Len(Content[chunks'[n].file][content'[chunks'[n].file]])
               /\ \A m \in n + 1 .. Len(chunks') : chunks'[m].file # chunks'[n].file
    <3>1. CASE n = Len(chunks) + 1
      BY <1>0, <2>1, <2>4, <2>6, <3>1
    <3>2. CASE n \in 1 .. Len(chunks)
      <4>1. chunks'[n] = chunks[n] /\ chunks[n].kind = "end"
        BY <2>1, <2>6, <3>2
      <4>2. ASSUME NEW m \in n + 1 .. Len(chunks')
            PROVE  chunks'[m].file # chunks[n].file
        <5>1. CASE m = Len(chunks) + 1
          BY <2>1, <2>3, <3>2, <4>1, <5>1
        <5>2. CASE m \in n + 1 .. Len(chunks)
          <6>1. m \in 1 .. Len(chunks) /\ chunks'[m] = chunks[m]
            BY <1>0, <2>1, <3>2, <5>2
          <6>2. chunks[m].file # chunks[n].file
            BY <2>3, <3>2, <4>1, <5>2
          <6> QED BY <6>1, <6>2
        <5> QED BY <1>0, <2>1, <3>2, <5>1, <5>2
      <4> QED BY <2>3, <3>2, <4>1, <4>2
    <3> QED BY <1>0, <2>1, <3>1, <3>2
  <2> QED BY <2>5, <2>6 DEF ChannelInv, Rows
<1>4. CASE Fresh
  BY <1>4 DEF Fresh, ChannelInv
<1>5. CASE Feed
  <2>1. stage[Plan[nextJob]] = "planned"
    BY <1>0, <1>5 DEF Feed, ReaderInv
  <2> QED BY <1>0, <1>1, <1>5, <2>1 DEF Feed
<1>6. ASSUME NEW f \in Files, Reader(f)
      PROVE  ChannelInv'
  <2>1. CASE Look(f)
    BY <1>0, <1>1, <2>1 DEF Look, Handed
  <2>2. CASE Open(f)
    <3>1. stage[f] = "found" /\ content[f] = 0
      BY <2>2 DEF Open, ReaderInv
    <3> QED BY <1>0, <1>1, <2>2, <3>1 DEF Open
  <2>3. CASE OpenFails(f)
    BY <1>0, <1>1, <2>3 DEF OpenFails
  <2>4. CASE ReadRow(f)
    BY <1>0, <1>1, <2>4 DEF ReadRow
  <2>5. CASE BodyBreaks(f)
    BY <1>0, <1>1, <2>5 DEF BodyBreaks, Reading
  <2>6. CASE RetryBrokenBody(f)
    BY <1>0, <1>1, <2>6 DEF RetryBrokenBody, vars
  <2>7. CASE SendBatch(f)
    <3> DEFINE c == [kind |-> "rows", file |-> f, from |-> sent[f], to |-> pos[f]]
    <3>1. c \in Chunk
      BY <1>0 DEF Chunk, Kinds
    <3>2. content[f] # 0 /\ stage[f] = "reading" /\ sent[f] <= pos[f]
      BY <2>7 DEF SendBatch, Reading, TypeOK, ReaderTypes
    <3>3. chunks' = Append(chunks, c) /\ sent' = [sent EXCEPT ![f] = pos[f]]
          /\ UNCHANGED <<stage, content>>
      BY <2>7 DEF SendBatch, Send
    <3> HIDE DEF c
    <3>4. c.kind = "rows" /\ c.file = f /\ c.to = pos[f]
      BY DEF c
    <3> QED BY <1>0, <1>3, <3>1, <3>2, <3>3, <3>4
  <2>8. CASE SendEnd(f)
    <3> DEFINE c == [kind |-> "end", file |-> f, from |-> 0, to |-> 0]
    <3>1. c \in Chunk
      BY <1>0 DEF Chunk, Kinds
    <3>2. content[f] # 0 /\ stage[f] = "reading" /\ sent[f] = Rows(f)
      BY <2>8 DEF SendEnd, Reading, FileRead, TypeOK, ReaderTypes
    <3>3. chunks' = Append(chunks, c) /\ stage' = [stage EXCEPT ![f] = "done"]
          /\ UNCHANGED <<sent, content>>
      BY <2>8 DEF SendEnd, Send
    <3> HIDE DEF c
    <3>4. c.kind = "end" /\ c.file = f
      BY DEF c
    <3> QED BY <1>0, <1>3, <3>1, <3>2, <3>3, <3>4
  <2>9. CASE SendMarker(f)
    <3> DEFINE c == [kind |-> stage[f], file |-> f, from |-> 0, to |-> 0]
    <3>1. c \in Chunk
      BY <1>0, <2>9 DEF SendMarker, Chunk, Kinds
    <3>2. stage[f] \in {"missing", "unchanged"}
      BY <2>9 DEF SendMarker
    <3>3. chunks' = Append(chunks, c) /\ stage' = [stage EXCEPT ![f] = "done"]
          /\ UNCHANGED <<sent, content>>
      BY <2>9 DEF SendMarker, Send
    <3> HIDE DEF c
    <3>4. c.kind = stage[f] /\ c.file = f
      BY DEF c
    <3> QED BY <1>0, <1>3, <3>1, <3>2, <3>3, <3>4
  <2>10. CASE AbandonSend(f)
    BY <1>0, <1>1, <2>10 DEF AbandonSend, Reading
  <2> QED
    BY <1>6, <2>1, <2>2, <2>3, <2>4, <2>5, <2>6, <2>7, <2>8, <2>9, <2>10 DEF Reader
<1>7. CASE Writer
  <2>1. chunks # <<>> /\ chunks' = Tail(chunks) /\ UNCHANGED reader
    BY <1>7 DEF Writer, ReceiveMarker, WriteBatch, WriteFails, DrainBatch, EndFile, Receives
  <2> QED BY <1>2, <2>1
<1>8. CASE \E f \in Files : Publish(f)
  BY <1>0, <1>1, <1>8 DEF Publish
<1>9. CASE Cancel \/ FeederStops \/ UNCHANGED vars
  BY <1>0, <1>1, <1>9 DEF Cancel, FeederStops, vars
<1>10. CASE Kill \/ StartRun \/ Finish
  BY <1>4, <1>10 DEF Kill, StartRun, Finish
<1> QED BY <1>5, <1>6, <1>7, <1>8, <1>9, <1>10 DEF Next

\* No row is lost between a reader and the database while every write succeeds.
LEMMA NextFlowInv == TypeOK /\ ReaderInv /\ ChannelInv /\ FlowInv /\ [Next]_vars => FlowInv'
<1> SUFFICES ASSUME TypeOK, ReaderInv, ChannelInv, FlowInv, [Next]_vars, ~writeErr'
             PROVE  FlowInv'
  BY DEF FlowInv
<1> USE PipelineAssumption DEF durable, run, feeder, reader, writer, MoveTo
<1>0. /\ content \in [Files -> VersionOrNone] /\ sent \in [Files -> Nat] /\ pos \in [Files -> Nat]
      /\ chunks \in Seq(Chunk)
      /\ db \in [Files -> [Keys -> VersionOrNone]]
  BY DEF TypeOK, DurableTypes, ReaderTypes, WriterTypes
\* Nothing the flow depends on moves, or a file's rows start from none.
<1>1. ASSUME UNCHANGED <<db, chunks, writeErr>>,
             \A g \in Files : content'[g] # 0 =>
               \/ content'[g] = content[g] /\ sent'[g] = sent[g]
               \/ sent'[g] = 0
      PROVE  FlowInv'
  BY <1>1 DEF FlowInv, Carries, GoodRows
<1>2. ASSUME ~writeErr, NEW c \in Chunk, chunks' = Append(chunks, c), UNCHANGED <<db, content>>,
             \A g \in Files : sent'[g] = sent[g] \/
                              /\ c.kind = "rows" /\ c.file = g
                              /\ c.from = sent[g] /\ c.to = sent'[g]
      PROVE  FlowInv'
  <2>1. /\ Len(chunks') = Len(chunks) + 1
        /\ \A n \in 1 .. Len(chunks) : chunks'[n] = chunks[n]
        /\ chunks'[Len(chunks) + 1] = c
    BY <1>0, <1>2
  <2>2. ASSUME NEW f \in Files, content[f] # 0, NEW i \in GoodRows(f, content[f], 0, sent'[f])
        PROVE  \/ db[f][Content[f][content[f]][i]] = content[f]
               \/ \E n \in 1 .. Len(chunks') : Carries(n, f, i)'
    <3>1. CASE i \in GoodRows(f, content[f], 0, sent[f])
      <4>1. CASE \E n \in 1 .. Len(chunks) : Carries(n, f, i)
        <5>1. PICK n \in 1 .. Len(chunks) : Carries(n, f, i)
          BY <4>1
        <5>2. n \in 1 .. Len(chunks') /\ Carries(n, f, i)'
          BY <1>0, <2>1, <5>1 DEF Carries
        <5> QED BY <5>2
      <4> QED BY <1>2, <2>2, <3>1, <4>1 DEF FlowInv
    <3>2. CASE i \notin GoodRows(f, content[f], 0, sent[f])
      <4>1. i \in 1 .. sent'[f] /\ i \notin 1 .. sent[f]
        BY <2>2, <3>2 DEF GoodRows
      <4>2. c.kind = "rows" /\ c.file = f /\ c.from = sent[f] /\ c.to = sent'[f]
        BY <1>2, <4>1
      <4>3. c.from < i /\ i <= c.to
        BY <1>0, <4>1, <4>2
      <4>4. Len(chunks) + 1 \in 1 .. Len(chunks')
        BY <1>0, <2>1
      <4> QED BY <2>1, <4>2, <4>3, <4>4 DEF Carries
    <3> QED BY <3>1, <3>2
  <2> QED BY <1>2, <2>2 DEF FlowInv
<1>3. CASE Fresh
  BY <1>3 DEF Fresh, FlowInv
<1>4. ASSUME NEW f \in Files, Reader(f)
      PROVE  FlowInv'
  <2>1. CASE Open(f)
    BY <1>0, <1>1, <2>1 DEF Open
  <2>2. CASE \/ Look(f) \/ OpenFails(f) \/ ReadRow(f) \/ BodyBreaks(f) \/ RetryBrokenBody(f)
             \/ AbandonSend(f)
    <3>1. UNCHANGED <<db, chunks, writeErr, content, sent>>
      BY <2>2 DEF Look, OpenFails, ReadRow, BodyBreaks, RetryBrokenBody, AbandonSend, vars
    <3> QED BY <1>1, <3>1
  <2>3. CASE SendBatch(f)
    <3> DEFINE c == [kind |-> "rows", file |-> f, from |-> sent[f], to |-> pos[f]]
    <3>1. c \in Chunk /\ c.kind = "rows" /\ c.file = f /\ c.from = sent[f] /\ c.to = pos[f]
      BY <1>0 DEF Chunk, Kinds
    <3>2. chunks' = Append(chunks, c) /\ sent' = [sent EXCEPT ![f] = pos[f]]
          /\ UNCHANGED <<db, writeErr, content>>
      BY <2>3 DEF SendBatch, Send
    <3> HIDE DEF c
    <3> QED BY <1>0, <1>2, <3>1, <3>2
  <2>4. CASE SendEnd(f) \/ SendMarker(f)
    <3>1. PICK c \in Chunk : chunks' = Append(chunks, c)
      BY <1>0, <2>4 DEF SendEnd, SendMarker, Send, Chunk, Kinds
    <3>2. UNCHANGED <<db, writeErr, content, sent>>
      BY <2>4 DEF SendEnd, SendMarker
    <3> QED BY <1>0, <1>2, <3>1, <3>2
  <2> QED BY <1>4, <2>1, <2>2, <2>3, <2>4 DEF Reader
<1>5. CASE Writer
  <2>1. /\ chunks # <<>> /\ chunks' = Tail(chunks) /\ ~writeErr /\ UNCHANGED reader
        /\ Head(chunks) = chunks[1]
    BY <1>0, <1>5
    DEF Writer, ReceiveMarker, WriteBatch, WriteFails, DrainBatch, EndFile, Receives
  <2>2. \A n \in 2 .. Len(chunks) : n - 1 \in 1 .. Len(chunks') /\ chunks'[n - 1] = chunks[n]
    BY <1>0, <2>1
  <2>3. ASSUME NEW f \in Files, NEW i, \E n \in 1 .. Len(chunks) : Carries(n, f, i)
        PROVE  Carries(1, f, i) \/ \E n \in 1 .. Len(chunks') : Carries(n, f, i)'
    <3>1. PICK n \in 1 .. Len(chunks) : Carries(n, f, i)
      BY <2>3
    <3>2. CASE n \in 2 .. Len(chunks)
      <4>1. n - 1 \in 1 .. Len(chunks') /\ Carries(n - 1, f, i)'
        BY <2>2, <3>1, <3>2 DEF Carries
      <4> QED BY <4>1
    <3> QED BY <1>0, <3>1, <3>2
  <2>4. CASE WriteBatch
    <3>1. db' = Upserted(chunks[1]) /\ chunks[1].kind = "rows"
      BY <2>1, <2>4 DEF WriteBatch, Receives
    <3>2. ASSUME NEW f \in Files, content[f] # 0,
                 NEW i \in GoodRows(f, content[f], 0, sent[f])
          PROVE  \/ db'[f][Content[f][content[f]][i]] = content[f]
                 \/ \E n \in 1 .. Len(chunks') : Carries(n, f, i)'
      <4> DEFINE k == Content[f][content[f]][i]
      <4>0. i \in Nat /\ k \in Keys
        <5>1. content[f] \in Versions
          BY <1>0, <3>2, SourceFilesAssumption DEF Versions, VersionOrNone
        <5>2. sent[f] <= pos[f] /\ pos[f] <= Len(Content[f][content[f]])
          BY <3>2 DEF TypeOK, ReaderTypes, ReaderInv, Rows
        <5>3. Content[f][content[f]] \in Seq(Keys \cup {Malformed})
          BY <5>1, SourceFilesAssumption
        <5>4. i \in 1 .. Len(Content[f][content[f]]) /\ k # Malformed
          BY <1>0, <3>2, <5>2, <5>3 DEF GoodRows
        <5> QED BY <5>3, <5>4
      <4>1. ASSUME db[f][k] = content[f]
            PROVE  db'[f][k] = content[f]
        <5>1. db' = [db EXCEPT ![chunks[1].file] =
                       [j \in Keys |-> IF j \in KeysIn(chunks[1].file, content[chunks[1].file],
                                                       chunks[1].from, chunks[1].to)
                                       THEN content[chunks[1].file] ELSE @[j]]]
          BY <3>1 DEF Upserted
        <5> HIDE DEF k
        <5> QED BY <1>0, <4>0, <4>1, <5>1
      <4>2. ASSUME Carries(1, f, i)
            PROVE  db'[f][k] = content[f]
        <5>1. /\ chunks[1].file = f /\ chunks[1].from \in Nat /\ chunks[1].to \in Nat
              /\ chunks[1].from < i /\ i <= chunks[1].to
          <6>1. chunks[1] \in Chunk
            BY <1>0, <2>1
          <6> QED BY <4>2, <6>1 DEF Carries, Chunk
        <5>2. i \in GoodRows(f, content[f], chunks[1].from, chunks[1].to)
          BY <3>2, <4>0, <5>1 DEF GoodRows
        <5>3. k \in KeysIn(f, content[f], chunks[1].from, chunks[1].to)
          BY <5>2 DEF KeysIn
        <5>4. db' = [db EXCEPT ![f] =
                       [j \in Keys |-> IF j \in KeysIn(f, content[f], chunks[1].from, chunks[1].to)
                                       THEN content[f] ELSE @[j]]]
          BY <3>1, <5>1 DEF Upserted
        <5> HIDE DEF k
        <5> QED BY <1>0, <4>0, <5>3, <5>4
      <4> QED BY <2>1, <2>3, <3>2, <4>1, <4>2 DEF FlowInv
    <3> QED BY <2>1, <3>2 DEF FlowInv
  <2>5. CASE ReceiveMarker \/ EndFile
    <3>1. db' = db /\ chunks[1].kind # "rows"
      BY <2>1, <2>5 DEF ReceiveMarker, EndFile, Receives
    <3>2. \A f, i : ~Carries(1, f, i)
      BY <3>1 DEF Carries
    <3>3. ASSUME NEW f \in Files, content[f] # 0, NEW i \in GoodRows(f, content[f], 0, sent[f])
          PROVE  \/ db[f][Content[f][content[f]][i]] = content[f]
                 \/ \E n \in 1 .. Len(chunks') : Carries(n, f, i)'
      BY <2>1, <2>3, <3>2, <3>3 DEF FlowInv
    <3> QED BY <2>1, <3>1, <3>3 DEF FlowInv
  <2>6. CASE WriteFails \/ DrainBatch
    BY <2>1, <2>6 DEF WriteFails, DrainBatch
  <2> QED BY <1>5, <2>4, <2>5, <2>6 DEF Writer
<1>6. CASE \/ \E f \in Files : Publish(f)
           \/ Cancel \/ Feed \/ FeederStops \/ UNCHANGED vars
  <2>1. UNCHANGED <<db, chunks, writeErr, content, sent>>
    BY <1>6 DEF Publish, Cancel, Feed, FeederStops, vars
  <2> QED BY <1>1, <2>1
<1>7. CASE Kill \/ StartRun \/ Finish
  BY <1>3, <1>7 DEF Kill, StartRun, Finish
<1> QED BY <1>4, <1>5, <1>6, <1>7 DEF Next, FlowInv

\* Of a mirror that only moves forward, what is later in the order was read later.
LEMMA NextOrderInv == TypeOK /\ ReaderInv /\ ChannelInv /\ OrderInv /\ [Next]_vars => OrderInv'
<1> DEFINE Ordered ==
             \A f \in Files :
                /\ ledger[f] <= upstream[f] /\ tag[f] <= upstream[f]
                /\ content[f] # 0 => /\ ledger[f] <= content[f] /\ tag[f] <= content[f]
                                     /\ content[f] <= upstream[f]
<1> SUFFICES ASSUME TypeOK, ReaderInv, ChannelInv, Ordered, [Next]_vars, ~MayRevert
             PROVE  Ordered'
  BY DEF OrderInv
<1> USE DEF durable, run, feeder, reader, writer, MoveTo
<1>0. /\ content \in [Files -> Nat] /\ tag \in [Files -> Nat]
      /\ upstream \in [Files -> Nat] /\ ledger \in [Files -> Nat]
  BY SourceFilesAssumption DEF TypeOK, DurableTypes, ReaderTypes, VersionOrNone
<1>1. CASE UNCHANGED <<upstream, ledger, tag, content>>
  BY <1>1
<1>2. CASE Fresh /\ UNCHANGED durable
  <2>1. \A g \in Files : tag'[g] = 0 /\ content'[g] = 0
    BY <1>2 DEF Fresh
  <2> QED BY <1>0, <1>2, <2>1
<1>3. ASSUME NEW f \in Files, Publish(f)
      PROVE  Ordered'
  <2>1. PICK v \in Versions : v > upstream[f] /\ upstream' = [upstream EXCEPT ![f] = v]
    BY <1>3 DEF Publish
  <2>2. v \in Nat
    BY SourceFilesAssumption DEF Versions
  <2>3. \A g \in Files : upstream[g] <= upstream'[g] /\ upstream'[g] \in Nat
    BY <1>0, <2>1, <2>2
  <2>4. UNCHANGED <<ledger, tag, content>>
    BY <1>3 DEF Publish
  <2> QED BY <1>0, <2>3, <2>4
<1>4. ASSUME NEW f \in Files, Reader(f)
      PROVE  Ordered'
  <2>1. CASE Look(f)
    <3>1. content[f] = 0
      BY <2>1 DEF Look, Handed, ReaderInv
    <3>2. UNCHANGED tag \/ \E t \in {0, upstream[f]} : tag' = [tag EXCEPT ![f] = t]
      BY <2>1 DEF Look
    <3>3. UNCHANGED <<upstream, ledger, content>>
      BY <2>1 DEF Look
    <3> QED BY <1>0, <3>1, <3>2, <3>3
  <2>2. CASE Open(f)
    <3>1. content' = [content EXCEPT ![f] = upstream[f]] /\ UNCHANGED <<upstream, ledger, tag>>
      BY <2>2 DEF Open
    <3> QED BY <1>0, <3>1
  <2>3. CASE \/ OpenFails(f) \/ ReadRow(f) \/ BodyBreaks(f) \/ RetryBrokenBody(f)
             \/ SendBatch(f) \/ SendEnd(f) \/ SendMarker(f) \/ AbandonSend(f)
    BY <1>1, <2>3 DEF OpenFails, ReadRow, BodyBreaks, RetryBrokenBody, SendBatch, SendEnd,
       SendMarker, AbandonSend, vars
  <2> QED BY <1>4, <2>1, <2>2, <2>3 DEF Reader
<1>5. CASE EndFile
  <2>1. chunks # <<>> /\ Head(chunks).kind = "end" /\ Head(chunks) = chunks[1]
        /\ chunks[1] \in Chunk /\ 1 \in 1 .. Len(chunks)
    BY <1>5 DEF EndFile, Receives, TypeOK, WriterTypes
  <2> DEFINE f == chunks[1].file
  <2>2. f \in Files /\ content[f] # 0
    BY <2>1 DEF ChannelInv, Chunk
  <2>3. UNCHANGED ledger \/ ledger' = [ledger EXCEPT ![f] = tag[f]]
    BY <1>5, <2>1 DEF EndFile
  <2>4. UNCHANGED <<upstream, tag, content>>
    BY <1>5 DEF EndFile
  <2> HIDE DEF f
  <2> QED BY <1>0, <2>2, <2>3, <2>4
<1>6. CASE ReceiveMarker \/ WriteBatch \/ WriteFails \/ DrainBatch
  BY <1>1, <1>6 DEF ReceiveMarker, WriteBatch, WriteFails, DrainBatch
<1>7. CASE Cancel \/ Feed \/ FeederStops \/ UNCHANGED vars
  BY <1>1, <1>7 DEF Cancel, Feed, FeederStops, vars
<1>8. CASE Kill \/ StartRun \/ Finish
  BY <1>2, <1>8 DEF Kill, StartRun, Finish
<1> QED BY <1>3, <1>4, <1>5, <1>6, <1>7, <1>8 DEF Next, Writer

\* When the writer takes the chunk that closes a file and no write has failed, the
\* database holds every row of the content that was opened.
LEMMA ClosedFileIsWhole ==
    ASSUME IInv, Receives("end"), ~writeErr
    PROVE  LET f == Head(chunks).file
           IN  /\ f \in Files /\ content[f] \in Versions
               /\ \A k \in KeysOf(f, content[f]) : db[f][k] = content[f]
<1> DEFINE f == chunks[1].file
<1>1. /\ Head(chunks) = chunks[1] /\ chunks[1] \in Chunk /\ chunks[1].kind = "end"
      /\ 1 \in 1 .. Len(chunks)
  BY DEF IInv, TypeOK, WriterTypes, Receives
<1>2. /\ f \in Files /\ content[f] # 0 /\ sent[f] = Len(Content[f][content[f]])
      /\ \A m \in 2 .. Len(chunks) : chunks[m].file # f
  BY <1>1 DEF IInv, ChannelInv, Rows, Chunk
<1>3. content[f] \in Versions
  BY <1>2, SourceFilesAssumption DEF IInv, TypeOK, ReaderTypes, Versions, VersionOrNone
<1>4. \A i : ~ \E n \in 1 .. Len(chunks) : Carries(n, f, i)
  <2>1. ASSUME NEW i, NEW n \in 1 .. Len(chunks), Carries(n, f, i)
        PROVE  FALSE
    <3>1. CASE n = 1
      BY <1>1, <2>1, <3>1 DEF Carries
    <3>2. CASE n \in 2 .. Len(chunks)
      BY <1>2, <2>1, <3>2 DEF Carries
    <3> QED BY <2>1, <3>1, <3>2
  <2> QED BY <2>1
<1>5. \A i \in GoodRows(f, content[f], 0, sent[f]) :
        db[f][Content[f][content[f]][i]] = content[f]
  BY <1>2, <1>4 DEF IInv, FlowInv
<1>6. \A k \in KeysOf(f, content[f]) : db[f][k] = content[f]
  BY <1>2, <1>5 DEF KeysOf, KeysIn
<1> QED BY <1>1, <1>2, <1>3, <1>6

\* Neither a later run's batches nor a newer version upstream take away what was recorded.
LEMMA NextHeldInv == IInv /\ [Next]_vars => HeldInv'
<1> DEFINE Held ==
             \A f \in Files :
                /\ \A k \in Keys : db[f][k] <= upstream[f]
                /\ ledger[f] # 0 =>
                     \E c \in ledger[f] .. Newest(f) : \A k \in KeysOf(f, c) : db[f][k] >= c
<1> SUFFICES ASSUME IInv, Held, [Next]_vars, ~MayRevert
             PROVE  Held'
  BY DEF IInv, HeldInv
<1> USE DEF durable, run, feeder, reader, writer, MoveTo
<1>0. /\ content \in [Files -> Nat] /\ tag \in [Files -> Nat]
      /\ upstream \in [Files -> Nat] /\ ledger \in [Files -> Nat]
      /\ db \in [Files -> [Keys -> Nat]]
  BY SourceFilesAssumption DEF IInv, TypeOK, DurableTypes, ReaderTypes, VersionOrNone
<1>o. \A f \in Files : content[f] # 0 => /\ tag[f] <= content[f] /\ content[f] <= upstream[f]
                                         /\ ledger[f] <= content[f]
  BY DEF IInv, OrderInv
<1>1. ASSUME UNCHANGED <<db, ledger>>, upstream' \in [Files -> Nat], content' \in [Files -> Nat],
             \A g \in Files : upstream[g] <= upstream'[g] /\ Newest(g) <= Newest(g)'
      PROVE  Held'
  <2>1. ASSUME NEW f \in Files, NEW k \in Keys
        PROVE  db'[f][k] <= upstream'[f]
    BY <1>0, <1>1, <2>1
  <2>2. ASSUME NEW f \in Files, ledger'[f] # 0
        PROVE  \E c \in ledger'[f] .. Newest(f)' : \A k \in KeysOf(f, c) : db'[f][k] >= c
    <3>1. PICK c \in ledger[f] .. Newest(f) : \A k \in KeysOf(f, c) : db[f][k] >= c
      BY <1>1, <2>2
    <3>2. c \in ledger'[f] .. Newest(f)'
      BY <1>0, <1>1, <2>2, <3>1 DEF Newest
    <3> QED BY <1>1, <3>1, <3>2
  <2> QED BY <2>1, <2>2
<1>2. CASE UNCHANGED <<upstream, db, ledger, content>>
  BY <1>0, <1>1, <1>2 DEF Newest
<1>3. CASE Fresh /\ UNCHANGED durable
  BY <1>0, <1>o, <1>1, <1>3 DEF Fresh, Newest
<1>4. ASSUME NEW f \in Files, Publish(f)
      PROVE  Held'
  <2>1. PICK v \in Versions : v > upstream[f] /\ upstream' = [upstream EXCEPT ![f] = v]
    BY <1>4 DEF Publish
  <2>2. v \in Nat
    BY SourceFilesAssumption DEF Versions
  <2>3. UNCHANGED <<db, ledger, content>>
    BY <1>4 DEF Publish
  <2> QED BY <1>0, <1>1, <2>1, <2>2, <2>3 DEF Newest
<1>5. ASSUME NEW f \in Files, Reader(f)
      PROVE  Held'
  <2>1. CASE Open(f)
    <3>1. content[f] = 0
      BY <2>1 DEF Open, IInv, ReaderInv
    <3>2. content' = [content EXCEPT ![f] = upstream[f]] /\ UNCHANGED <<upstream, db, ledger>>
      BY <2>1 DEF Open
    <3> QED BY <1>0, <1>1, <3>1, <3>2 DEF Newest
  <2>2. CASE \/ Look(f) \/ OpenFails(f) \/ ReadRow(f) \/ BodyBreaks(f) \/ RetryBrokenBody(f)
             \/ SendBatch(f) \/ SendEnd(f) \/ SendMarker(f) \/ AbandonSend(f)
    BY <1>2, <2>2 DEF Look, OpenFails, ReadRow, BodyBreaks, RetryBrokenBody, SendBatch, SendEnd,
       SendMarker, AbandonSend, vars
  <2> QED BY <1>5, <2>1, <2>2 DEF Reader
<1>6. CASE WriteBatch \/ WriteFails
  <2>1. /\ UNCHANGED <<upstream, ledger, content>> /\ Receives("rows")
        /\ db' = db \/ db' = Upserted(Head(chunks))
    BY <1>6 DEF WriteBatch, WriteFails
  <2> DEFINE f == chunks[1].file
  <2>2. /\ Head(chunks) = chunks[1] /\ chunks[1] \in Chunk /\ chunks[1].kind = "rows"
        /\ 1 \in 1 .. Len(chunks)
    BY <2>1 DEF Receives, IInv, TypeOK, WriterTypes
  <2>3. f \in Files /\ content[f] # 0
    BY <2>2 DEF IInv, ChannelInv, Chunk
  <2>4. ASSUME db' = Upserted(Head(chunks))
        PROVE  \A g \in Files, k \in Keys :
                  db'[g][k] = db[g][k] \/ (g = f /\ db'[g][k] = content[f])
    BY <1>0, <2>2, <2>3, <2>4 DEF Upserted
  <2>5. \A g \in Files, k \in Keys :
           db'[g][k] = db[g][k] \/ (g = f /\ db'[g][k] = content[f])
    BY <2>1, <2>4
  <2> HIDE DEF f
  <2>6. ASSUME NEW g \in Files, NEW k \in Keys
        PROVE  db'[g][k] <= upstream'[g]
    BY <1>0, <1>o, <2>1, <2>3, <2>5, <2>6
  <2>7. ASSUME NEW g \in Files, ledger'[g] # 0
        PROVE  \E c \in ledger'[g] .. Newest(g)' : \A k \in KeysOf(g, c) : db'[g][k] >= c
    <3>1. PICK c \in ledger[g] .. Newest(g) : \A k \in KeysOf(g, c) : db[g][k] >= c
      BY <2>1, <2>7
    <3>2. c \in Nat /\ c \in Versions /\ (g = f => c <= content[f])
      <4>1. Newest(g) \in Nat /\ Newest(g) <= upstream[g]
        BY <1>0, <1>o DEF Newest
      <4>2. upstream[g] <= MaxVersion
        BY SourceFilesAssumption DEF IInv, TypeOK, DurableTypes, VersionOrNone
      <4> QED BY <1>0, <2>1, <2>3, <2>7, <3>1, <4>1, <4>2, SourceFilesAssumption DEF Versions, Newest
    <3>3. KeysOf(g, c) \subseteq Keys
      <4>1. Content[g][c] \in Seq(Keys \cup {Malformed})
        BY <3>2, SourceFilesAssumption
      <4> QED BY <4>1 DEF KeysOf, KeysIn, GoodRows
    <3>4. ASSUME NEW k \in KeysOf(g, c)
          PROVE  db'[g][k] >= c
      BY <1>0, <2>3, <2>5, <3>1, <3>2, <3>3, <3>4
    <3>5. Newest(g)' = Newest(g)
      BY <2>1 DEF Newest
    <3> QED BY <2>1, <3>1, <3>4, <3>5
  <2> QED BY <2>6, <2>7
<1>7. CASE EndFile
  <2> DEFINE f == Head(chunks).file
  <2>1. UNCHANGED <<upstream, db, content>> /\ Receives("end")
    BY <1>7 DEF EndFile
  <2>2. CASE UNCHANGED ledger
    BY <1>2, <2>1, <2>2
  <2>3. CASE ~writeErr /\ ledger' = [ledger EXCEPT ![f] = tag[f]]
    <3>1. f \in Files /\ content[f] # 0 /\ \A k \in KeysOf(f, content[f]) : db[f][k] = content[f]
      BY <2>1, <2>3, ClosedFileIsWhole, SourceFilesAssumption DEF Versions
    <3> HIDE DEF f
    <3>2. content[f] \in tag[f] .. Newest(f)
      BY <1>0, <1>o, <3>1 DEF Newest
    <3>3. ASSUME NEW k \in KeysOf(f, content[f])
          PROVE  db'[f][k] >= content[f]
      BY <1>0, <2>1, <3>1, <3>3
    <3>4. ASSUME NEW g \in Files, ledger'[g] # 0
          PROVE  \E c \in ledger'[g] .. Newest(g)' : \A k \in KeysOf(g, c) : db'[g][k] >= c
      <4>1. Newest(g)' = Newest(g)
        BY <2>1 DEF Newest
      <4>2. CASE g = f
        <5>1. ledger'[g] = tag[f]
          BY <1>0, <2>3, <3>1, <4>2
        <5> QED BY <3>2, <3>3, <4>1, <4>2, <5>1
      <4>3. CASE g # f
        <5>1. ledger'[g] = ledger[g]
          BY <1>0, <2>3, <3>1, <4>3
        <5> QED BY <2>1, <3>4, <4>1, <5>1
      <4> QED BY <4>2, <4>3
    <3> QED BY <2>1, <3>4
  <2> QED BY <1>7, <2>2, <2>3 DEF EndFile
<1>8. CASE ReceiveMarker \/ DrainBatch
  BY <1>2, <1>8 DEF ReceiveMarker, DrainBatch
<1>9. CASE Cancel \/ Feed \/ FeederStops \/ UNCHANGED vars
  BY <1>2, <1>9 DEF Cancel, Feed, FeederStops, vars
<1>10. CASE Kill \/ StartRun \/ Finish
  BY <1>3, <1>10 DEF Kill, StartRun, Finish
<1> QED BY <1>4, <1>5, <1>6, <1>7, <1>8, <1>9, <1>10 DEF Next, Writer

LEMMA InitIInv == Init => IInv
<1> SUFFICES ASSUME Init PROVE IInv
  OBVIOUS
<1>1. ReaderInv
  BY PipelineAssumption DEF Init, ReaderInv
<1>2. ChannelInv /\ FlowInv
  BY DEF Init, ChannelInv, FlowInv
<1>3. OrderInv
  BY SourceFilesAssumption DEF Init, OrderInv, VersionOrNone
<1>4. HeldInv
  BY SourceFilesAssumption DEF Init, HeldInv, VersionOrNone
<1> QED BY <1>1, <1>2, <1>3, <1>4, InitTypeOK DEF IInv

LEMMA NextIInv == IInv /\ [Next]_vars => IInv'
  BY NextTypeOK, NextReaderInv, NextChannelInv, NextFlowInv, NextOrderInv, NextHeldInv DEF IInv

\* The inductive invariant of the pipeline.
THEOREM PipelineInvariant == Spec => []IInv
  BY InitIInv, NextIInv, PTL DEF Spec
-----------------------------------------------------------------------------
(* The pipeline implements the abstract ingest.                            *)

\* A batch's rows are committed as one transaction of the abstract ingest.
LEMMA BatchImplementsCommit ==
    ASSUME IInv, NEW c \in Chunk, c = Head(chunks), Receives("rows"), db' = Upserted(c),
           UNCHANGED <<upstream, ledger>>
    PROVE  Abstract!Commit(c.file)
<1> DEFINE f == c.file
           v == content[f]
           S == KeysIn(f, v, c.from, c.to)
<1>1. 1 \in 1 .. Len(chunks) /\ c = chunks[1] /\ c.kind = "rows"
  BY DEF IInv, TypeOK, WriterTypes, Receives
<1>2. f \in Files /\ c.from \in Nat /\ c.to \in Nat
  BY DEF Chunk
<1>3. v # 0 /\ c.to <= sent[f]
  BY <1>1 DEF IInv, ChannelInv
<1>4. v \in Versions
  BY <1>2, <1>3, SourceFilesAssumption DEF IInv, TypeOK, ReaderTypes, Versions, VersionOrNone
<1>5. Len(Content[f][v]) \in Nat
  BY <1>2, <1>4, SourceFilesAssumption
<1>6. c.to <= Len(Content[f][v])
  <2>1. sent[f] \in Nat /\ pos[f] \in Nat /\ sent[f] <= pos[f] /\ pos[f] <= Len(Content[f][v])
    BY <1>2, <1>3, <1>4 DEF IInv, TypeOK, ReaderTypes, ReaderInv, Rows
  <2> QED BY <1>2, <1>3, <1>5, <2>1
<1>7. S \subseteq KeysOf(f, v)
  <2>1. GoodRows(f, v, c.from, c.to) \subseteq GoodRows(f, v, 0, Len(Content[f][v]))
    BY <1>2, <1>5, <1>6 DEF GoodRows
  <2> QED BY <2>1 DEF KeysOf, KeysIn
<1>8. MayRevert \/ v \in ledger[f] .. upstream[f]
  <2>1. MayRevert \/ (ledger[f] <= v /\ v <= upstream[f])
    BY <1>2, <1>3 DEF IInv, OrderInv
  <2>2. v \in Nat /\ ledger[f] \in Nat /\ upstream[f] \in Nat
    BY <1>2, <1>4, SourceFilesAssumption
    DEF IInv, TypeOK, DurableTypes, Versions, VersionOrNone
  <2> QED BY <2>1, <2>2
<1>9. db' = [db EXCEPT ![f] = [k \in Keys |-> IF k \in S THEN v ELSE @[k]]]
  BY DEF Upserted
<1> QED BY <1>4, <1>7, <1>8, <1>9 DEF Abstract!Commit, KeysOf, KeysIn, GoodRows, Versions,
           Abstract!KeysOf, Abstract!KeysIn, Abstract!GoodRows, Abstract!Versions

\* Every step of the pipeline is one of the abstract ingest or leaves it where it is.
LEMMA StepImplements == IInv /\ [Next]_vars => [Abstract!Next]_(Abstract!vars)
<1> SUFFICES ASSUME IInv, [Next]_vars
             PROVE  Abstract!Next \/ UNCHANGED <<upstream, db, ledger>>
  BY DEF Abstract!vars
<1> USE DEF durable
<1>1. ASSUME NEW f \in Files, Publish(f)
      PROVE  Abstract!Next
  <2>1. Abstract!Publish(f)
    BY <1>1 DEF Publish, Abstract!Publish, Versions, Abstract!Versions
  <2> QED BY <2>1 DEF Abstract!Next
<1>2. CASE WriteBatch \/ WriteFails
  <2>1. Receives("rows") /\ Head(chunks) \in Chunk /\ UNCHANGED <<upstream, ledger>>
    BY <1>2 DEF WriteBatch, WriteFails, Receives, IInv, TypeOK, WriterTypes
  <2>2. db' = db \/ db' = Upserted(Head(chunks))
    BY <1>2 DEF WriteBatch, WriteFails
  <2>3. CASE db' = Upserted(Head(chunks))
    <3>1. Abstract!Commit(Head(chunks).file)
      BY <2>1, <2>3, BatchImplementsCommit
    <3>2. Head(chunks).file \in Files
      BY <2>1 DEF Chunk
    <3> QED BY <3>1, <3>2 DEF Abstract!Next
  <2> QED BY <2>1, <2>2, <2>3
<1>3. CASE EndFile
  <2> DEFINE f == Head(chunks).file
  <2>1. \/ ledger' = ledger
        \/ ~writeErr /\ tag[f] # 0 /\ ledger' = [ledger EXCEPT ![f] = tag[f]]
    BY <1>3 DEF EndFile
  <2>2. Receives("end") /\ UNCHANGED <<upstream, db>>
    BY <1>3 DEF EndFile
  <2>3. CASE ~writeErr /\ tag[f] # 0 /\ ledger' = [ledger EXCEPT ![f] = tag[f]]
    <3>1. /\ f \in Files /\ content[f] \in Versions
          /\ \A k \in KeysOf(f, content[f]) : db[f][k] = content[f]
      BY <2>2, <2>3, ClosedFileIsWhole
    <3>2. tag[f] \in Versions /\ content[f] # 0
      BY <2>3, <3>1, SourceFilesAssumption
      DEF IInv, TypeOK, ReaderTypes, Versions, VersionOrNone
    <3>3. MayRevert \/ (tag[f] <= content[f] /\ content[f] <= upstream[f])
      BY <3>1, <3>2 DEF IInv, OrderInv
    <3>4. Abstract!Record(f)
      BY <2>2, <2>3, <3>1, <3>2, <3>3 DEF Abstract!Record, KeysOf, KeysIn, GoodRows, Versions,
         Abstract!KeysOf, Abstract!KeysIn, Abstract!GoodRows, Abstract!Versions
    <3> QED BY <3>1, <3>4 DEF Abstract!Next
  <2> QED BY <2>1, <2>2, <2>3
<1>4. ASSUME NEW f \in Files, Reader(f)
      PROVE  UNCHANGED <<upstream, db, ledger>>
  BY <1>4 DEF Reader, Look, Open, OpenFails, ReadRow, BodyBreaks, RetryBrokenBody, SendBatch,
     SendEnd, SendMarker, AbandonSend, vars
<1>5. CASE ReceiveMarker \/ DrainBatch
  BY <1>5 DEF ReceiveMarker, DrainBatch
<1>6. CASE Cancel \/ Kill \/ StartRun \/ Feed \/ FeederStops \/ Finish \/ UNCHANGED vars
  BY <1>6 DEF Cancel, Kill, StartRun, Feed, FeederStops, Finish, vars
<1> QED BY <1>1, <1>2, <1>3, <1>4, <1>5, <1>6 DEF Next, Writer

\* The pipeline, with its readers, channel, failures and process deaths, implements
\* the resumable ingest: the writer of Run and RecordFile are all the database sees.
THEOREM PipelineImplements == Spec => ImplementsResumableIngest
<1>1. Init => Abstract!Init
  BY DEF Init, Abstract!Init, VersionOrNone, Abstract!VersionOrNone
<1> QED BY <1>1, StepImplements, PipelineInvariant, PTL
        DEF Spec, ImplementsResumableIngest, Abstract!Spec
-----------------------------------------------------------------------------
(* What the ledger says of the database, when mirrors only move forward.   *)

\* Recorded files are held: a version published by the time a file was recorded, the
\* recorded one or a later, is in the database whole (RecordFile's comment).
THEOREM RecordedIsHeld == ASSUME ~MayRevert PROVE Spec => []RecordedFileIsHeld
<1>1. IInv => RecordedFileIsHeld
  <2> SUFFICES ASSUME IInv, NEW f \in Files, ledger[f] # 0
               PROVE  \E c \in ledger[f] .. upstream[f] : \A k \in KeysOf(f, c) : db[f][k] >= c
    BY DEF RecordedFileIsHeld
  <2>1. PICK c \in ledger[f] .. Newest(f) : \A k \in KeysOf(f, c) : db[f][k] >= c
    BY DEF IInv, HeldInv
  <2>2. Newest(f) <= upstream[f]
    BY SourceFilesAssumption
    DEF IInv, OrderInv, Newest, TypeOK, DurableTypes, ReaderTypes, VersionOrNone
  <2>3. ledger[f] \in Nat /\ upstream[f] \in Nat /\ Newest(f) \in Nat
    BY SourceFilesAssumption
    DEF IInv, Newest, TypeOK, DurableTypes, ReaderTypes, VersionOrNone
  <2>4. c \in ledger[f] .. upstream[f]
    BY <2>1, <2>2, <2>3
  <2> QED BY <2>1, <2>4
<1> QED BY <1>1, PipelineInvariant, PTL

\* Skipping an unchanged file is sound: the database holds what the mirror serves
\* whenever the ledger agrees with the mirror (ErrUnchanged in readFile).
THEOREM SkippingIsSound == ASSUME ~MayRevert PROVE Spec => []LedgerIsCurrent
<1>1. IInv => LedgerIsCurrent
  <2> SUFFICES ASSUME IInv, NEW f \in Files, ledger[f] # 0, ledger[f] = upstream[f],
                      NEW k \in KeysOf(f, upstream[f])
               PROVE  db[f][k] = upstream[f]
    BY DEF LedgerIsCurrent
  <2>1. PICK c \in ledger[f] .. Newest(f) : \A j \in KeysOf(f, c) : db[f][j] >= c
    BY DEF IInv, HeldInv
  <2>2. /\ upstream[f] \in Versions /\ upstream[f] \in Nat /\ content[f] \in Nat
        /\ db[f] \in [Keys -> Nat]
    BY SourceFilesAssumption
    DEF IInv, TypeOK, DurableTypes, ReaderTypes, Versions, VersionOrNone
  <2>3. Newest(f) \in Nat /\ Newest(f) <= upstream[f]
    BY <2>2 DEF IInv, OrderInv, Newest
  <2>4. c = upstream[f]
    BY <2>1, <2>2, <2>3
  <2>5. k \in Keys
    <3>1. Content[f][upstream[f]] \in Seq(Keys \cup {Malformed})
      BY <2>2, SourceFilesAssumption
    <3> QED BY <3>1 DEF KeysOf, KeysIn, GoodRows
  <2>6. db[f][k] <= upstream[f]
    BY <2>5 DEF IInv, HeldInv
  <2> QED BY <2>1, <2>2, <2>4, <2>5, <2>6
<1> QED BY <1>1, PipelineInvariant, PTL
-----------------------------------------------------------------------------
(* What a run that reports success has done.                               *)

\* A run under way has handed out the plan up to nextJob, and feeds until its end or
\* a signal; a file it opened and closed was sent to its last row.
PlanInv ==
    phase = "running" =>
        /\ outcome = "none"
        /\ feeding \/ cancelled \/ nextJob > Len(Plan)
        /\ \A i \in 1 .. nextJob - 1 : stage[Plan[i]] # "planned"
        /\ \A f \in Files : stage[f] = "done" /\ content[f] # 0 => sent[f] = Rows(f)

\* No step of a reader puts a file back into the plan.
LEMMA ReaderKeepsPlan ==
    ASSUME IInv, PlanInv, NEW f \in Files, Reader(f)
    PROVE  PlanInv'
<1> USE DEF feeder, run, reader
<1>1. stage \in [Files -> Stages] /\ content \in [Files -> VersionOrNone]
      /\ pos \in [Files -> Nat] /\ sent \in [Files -> Nat]
  BY DEF IInv, TypeOK, ReaderTypes
<1>2. nextJob \in 1 .. Len(Plan) + 1 /\ Plan \in Seq(Files)
  BY PipelineAssumption DEF IInv, TypeOK, RunTypes
<1>3. \A i \in 1 .. nextJob - 1 : Plan[i] \in Files
  BY <1>2
<1>4. UNCHANGED <<phase, outcome, feeding, cancelled, nextJob>> /\ phase = "running"
  BY DEF Reader, Look, Open, OpenFails, ReadRow, BodyBreaks, RetryBrokenBody, SendBatch, SendEnd,
         SendMarker, AbandonSend, Handed, Reading, vars
<1>5. \E s \in Stages \ {"planned"} : stage' = [stage EXCEPT ![f] = s] \/ stage' = stage
  <2>1. CASE Look(f)
    BY <2>1 DEF Look, MoveTo, Stages
  <2>2. CASE Open(f) \/ OpenFails(f) \/ BodyBreaks(f)
    BY <2>2 DEF Open, OpenFails, BodyBreaks, MoveTo, Stages
  <2>3. CASE ReadRow(f) \/ RetryBrokenBody(f) \/ SendBatch(f)
    BY <2>3 DEF ReadRow, RetryBrokenBody, SendBatch, vars, Stages
  <2>4. CASE SendEnd(f) \/ SendMarker(f) \/ AbandonSend(f)
    BY <2>4 DEF SendEnd, SendMarker, AbandonSend, MoveTo, Stages
  <2> QED BY <2>1, <2>2, <2>3, <2>4 DEF Reader
<1>6. \A i \in 1 .. nextJob - 1 : stage'[Plan[i]] # "planned"
  BY <1>1, <1>3, <1>4, <1>5 DEF PlanInv
<1>7. ASSUME NEW g \in Files, stage'[g] = "done", content'[g] # 0
      PROVE  sent'[g] = Rows(g)'
  <2> USE <1>1, <1>4, <1>7 DEF Rows
  <2>1. stage[g] = "done" /\ content[g] # 0 => sent[g] = Rows(g)
    BY DEF PlanInv
  <2>2. CASE g # f
    <3>1. stage[g] = "done" /\ content'[g] = content[g] /\ sent'[g] = sent[g]
      BY <1>5, <2>2 DEF Reader, Look, Open, OpenFails, ReadRow, BodyBreaks, RetryBrokenBody,
         SendBatch, SendEnd, SendMarker, AbandonSend, vars
    <3> QED BY <2>1, <3>1
  <2>3. CASE g = f
    <3>1. CASE Look(f) \/ Open(f) \/ OpenFails(f) \/ BodyBreaks(f)
      BY <2>3, <3>1 DEF Look, Open, OpenFails, BodyBreaks, MoveTo
    <3>2. CASE ReadRow(f) \/ RetryBrokenBody(f) \/ SendBatch(f)
      BY <2>1, <2>3, <3>2 DEF ReadRow, RetryBrokenBody, SendBatch, Reading, vars
    <3>3. CASE SendEnd(f)
      BY <2>3, <3>3 DEF SendEnd, FileRead
    <3>4. CASE SendMarker(f) \/ AbandonSend(f)
      <4>1. content[f] = 0 \/ stage[f] = "reading"
        BY <3>4 DEF SendMarker, AbandonSend, Reading, IInv, ReaderInv
      <4> QED BY <2>3, <3>4, <4>1 DEF SendMarker, AbandonSend, MoveTo
    <3> QED BY <3>1, <3>2, <3>3, <3>4 DEF Reader
  <2> QED BY <2>2, <2>3
<1> QED BY <1>4, <1>6, <1>7 DEF PlanInv

\* The feeder goes through the plan file by file.
LEMMA NextPlanInv ==
    ASSUME IInv, PlanInv, [Next]_vars
    PROVE  PlanInv'
<1> USE DEF feeder, run
<1>1. ASSUME NEW f \in Files, Publish(f)
      PROVE  PlanInv'
  BY <1>1 DEF Publish, PlanInv, reader, Rows
<1>2. ASSUME NEW f \in Files, Reader(f)
      PROVE  PlanInv'
  BY <1>2, ReaderKeepsPlan
<1>3. CASE Feed
  <2>1. nextJob \in 1 .. Len(Plan) /\ Plan \in Seq(Files) /\ stage \in [Files -> Stages]
    BY <1>3, PipelineAssumption DEF Feed, IInv, TypeOK, RunTypes, ReaderTypes
  <2>2. stage' = [stage EXCEPT ![Plan[nextJob]] = "handed"] /\ nextJob' = nextJob + 1
    BY <1>3 DEF Feed
  <2>3. \A i \in 1 .. nextJob' - 1 : i = nextJob \/ i \in 1 .. nextJob - 1
    BY <2>1, <2>2
  <2>4. \A i \in 1 .. nextJob' - 1 : stage'[Plan[i]] # "planned"
    BY <1>3, <2>1, <2>2, <2>3 DEF Feed, PlanInv
  <2>5. \A f \in Files : stage'[f] = "done" => stage[f] = "done"
    BY <2>1, <2>2
  <2> QED BY <1>3, <2>4, <2>5 DEF Feed, PlanInv, Rows
<1>4. CASE FeederStops
  BY <1>4 DEF FeederStops, PlanInv, reader, Rows
<1>5. CASE Cancel
  BY <1>5 DEF Cancel, PlanInv, reader, Rows
<1>6. CASE Kill \/ Finish
  BY <1>6 DEF Kill, Finish, PlanInv
<1>7. CASE StartRun
  BY <1>7 DEF StartRun, Fresh, PlanInv
<1>8. CASE Writer
  BY <1>8 DEF Writer, ReceiveMarker, WriteBatch, WriteFails, DrainBatch, EndFile, PlanInv, reader, Rows
<1>9. CASE UNCHANGED vars
  BY <1>9 DEF vars, PlanInv, reader, Rows
<1> QED BY <1>1, <1>2, <1>3, <1>4, <1>5, <1>6, <1>7, <1>8, <1>9 DEF Next

\* A run ends well only at its end.
LEMMA GoodRunsFinish ==
    ASSUME PlanInv, [Next]_vars, phase = "running", outcome' = "ok"
    PROVE  Finish
<1> USE DEF feeder, run
<1>1. outcome = "none"
  BY DEF PlanInv
<1>2. ~UNCHANGED outcome
  BY <1>1
<1>3. ~ \E f \in Files : Publish(f) \/ Reader(f)
  BY <1>2 DEF Publish, Reader, Look, Open, OpenFails, ReadRow, BodyBreaks, RetryBrokenBody,
     SendBatch, SendEnd, SendMarker, AbandonSend, vars
<1>4. ~(Cancel \/ Kill \/ StartRun \/ Feed \/ FeederStops \/ UNCHANGED vars)
  BY <1>2 DEF Cancel, Kill, StartRun, Feed, FeederStops, vars
<1>5. ~Writer
  BY <1>2 DEF Writer, ReceiveMarker, WriteBatch, WriteFails, DrainBatch, EndFile
<1> QED BY <1>3, <1>4, <1>5 DEF Next

\* A run that returns no error and was not cancelled has dealt with every file of its
\* plan, and every row of the bodies it opened is in the database (Run returns nil).
THEOREM GoodRunsAreComplete == Spec => CleanRunIsComplete
<1>1. Init => PlanInv
  BY DEF Init, PlanInv
<1>2. ASSUME IInv, PlanInv, [Next]_vars, phase = "running", outcome' = "ok", ~cancelled,
             NEW f \in PlannedFiles
      PROVE  /\ stage[f] = "done"
             /\ content[f] # 0 => \A k \in KeysOf(f, content[f]) : db[f][k] = content[f]
  <2>1. Finish /\ outcome' # "error"
    BY <1>2, GoodRunsFinish
  <2>2. BusyFiles = {} /\ FailedFiles = {} /\ chunks = <<>> /\ ~writeErr
    BY <2>1 DEF Finish, ReadersGone
  <2>3. IdleReaders = Workers /\ Workers > 0
    BY <2>2, FS_EmptySet, PipelineAssumption DEF IdleReaders
  <2>4. ~feeding
    BY <2>1, <2>3, PipelineAssumption DEF Finish, ReadersGone
  <2>5. nextJob > Len(Plan) /\ nextJob \in Nat
    BY <1>2, <2>4 DEF PlanInv, IInv, TypeOK, RunTypes
  <2>6. PICK i \in 1 .. Len(Plan) : f = Plan[i]
    BY DEF PlannedFiles
  <2>7. f \in Files /\ i \in 1 .. nextJob - 1
    BY <2>5, <2>6, PipelineAssumption
  <2>8. stage[f] \in Stages /\ stage[f] # "planned"
    BY <1>2, <2>6, <2>7 DEF PlanInv, IInv, TypeOK, ReaderTypes
  <2>9. stage[f] = "done"
    BY <2>2, <2>7, <2>8 DEF BusyFiles, FailedFiles, Busy, Stages
  <2>10. ASSUME content[f] # 0, NEW k \in KeysOf(f, content[f])
         PROVE  db[f][k] = content[f]
    <3>1. sent[f] = Len(Content[f][content[f]])
      BY <1>2, <2>7, <2>9, <2>10 DEF PlanInv, Rows
    <3>2. PICK n \in GoodRows(f, content[f], 0, sent[f]) : k = Content[f][content[f]][n]
      BY <2>10, <3>1 DEF KeysOf, KeysIn
    <3>3. Len(chunks) = 0
      BY <2>2
    <3> QED BY <1>2, <2>2, <2>7, <2>10, <3>2, <3>3 DEF IInv, FlowInv
  <2> QED BY <2>9, <2>10
<1>3. IInv /\ PlanInv /\ [Next]_vars =>
        (phase = "running" /\ outcome' = "ok" /\ ~cancelled =>
           \A f \in PlannedFiles :
             /\ stage[f] = "done"
             /\ content[f] # 0 => \A k \in KeysOf(f, content[f]) : db[f][k] = content[f])
  BY <1>2
<1> QED BY <1>1, <1>3, NextPlanInv, PipelineInvariant, PTL DEF Spec, CleanRunIsComplete
-----------------------------------------------------------------------------
(* The counts balance.                                                     *)

\* The rows of a chunk, and those of all the chunks in the channel.
RowsOf(c) == IF c.kind = "rows" THEN c.to - c.from ELSE 0
RowsAt(q) == [n \in 1 .. Len(q) |-> RowsOf(q[n])]
InFlight(q) == SumFunctionOnSet(RowsAt(q), 1 .. Len(q))

\* The reader has a file of the plan; until a write fails every row the writer has
\* seen is counted once; and what it has seen and what waits for it in the channel
\* is what the readers have sent of the files they opened.
BalanceInv ==
    /\ \A f \in Files : stage[f] # "planned" => f \in PlannedFiles
    /\ ~writeErr => stats.seen = stats.written + stats.rejected + stats.collapsed
    /\ stats.seen + InFlight(chunks) = SumFunctionOnSet(sent, OpenedFiles)

LEMMA RowsOfChunk == ASSUME NEW c \in Chunk PROVE RowsOf(c) \in Int
BY DEF Chunk, RowsOf

LEMMA InFlightIsNumber == ASSUME NEW q \in Seq(Chunk) PROVE InFlight(q) \in Int
<1>1. \A n \in 1 .. Len(q) : RowsAt(q)[n] \in Int
  BY RowsOfChunk DEF RowsAt
<1>2. IsFiniteSet(1 .. Len(q))
  BY FS_Interval
<1> QED BY <1>1, <1>2, SumIsNumber DEF InFlight

LEMMA NothingInFlight == InFlight(<<>>) = 0
<1>1. 1 .. Len(<<>>) = {}
  OBVIOUS
<1> QED BY <1>1, SumOfNothing DEF InFlight

\* A chunk that is sent adds its rows.
LEMMA SentIsInFlight ==
    ASSUME NEW q \in Seq(Chunk), NEW c \in Chunk
    PROVE  InFlight(Append(q, c)) = InFlight(q) + RowsOf(c)
<1> DEFINE r == Append(q, c)
           S == 1 .. Len(r)
           last == Len(r)
<1>1. r \in Seq(Chunk) /\ last = Len(q) + 1 /\ last \in S /\ Len(q) \in Nat
  OBVIOUS
<1>2. \A n \in S : RowsAt(r)[n] \in Int
  BY <1>1, RowsOfChunk DEF RowsAt
<1>3. IsFiniteSet(S) /\ IsFiniteSet(1 .. Len(q))
  BY <1>1, FS_Interval
<1>4. S \ {last} = 1 .. Len(q)
  BY <1>1
<1>5. RowsAt(r)[last] = RowsOf(c)
  BY <1>1 DEF RowsAt
<1>6. \A n \in 1 .. Len(q) : RowsAt(r)[n] = RowsAt(q)[n]
  BY <1>1 DEF RowsAt
<1> HIDE DEF r, S, last
<1>7. SumFunctionOnSet(RowsAt(r), S)
        = RowsAt(r)[last] + SumFunctionOnSet(RowsAt(r), S \ {last})
  BY <1>1, <1>2, <1>3, SumWithout
<1>8. SumFunctionOnSet(RowsAt(r), 1 .. Len(q)) = SumFunctionOnSet(RowsAt(q), 1 .. Len(q))
  BY <1>3, <1>6, SumOfSame
<1>9. InFlight(r) = RowsOf(c) + InFlight(q)
  BY <1>4, <1>5, <1>7, <1>8 DEF InFlight, S
<1>10. InFlight(q) \in Int /\ RowsOf(c) \in Int
  BY InFlightIsNumber, RowsOfChunk
<1> QED BY <1>9, <1>10 DEF r

\* A chunk that is received takes its rows out of the channel.
LEMMA ReceivedIsOut ==
    ASSUME NEW q \in Seq(Chunk), q # <<>>
    PROVE  InFlight(q) = RowsOf(Head(q)) + InFlight(Tail(q))
<1> DEFINE r == Tail(q)
           S == 1 .. Len(q)
           T == 1 .. Len(r)
           next == [n \in T |-> n + 1]
<1>1. /\ r \in Seq(Chunk) /\ Len(r) = Len(q) - 1 /\ 1 \in S /\ Len(q) \in Nat
      /\ Len(r) \in Nat
      /\ \A n \in T : r[n] = q[n + 1] /\ n + 1 \in S
  OBVIOUS
<1>2. \A n \in S : RowsAt(q)[n] \in Int
  BY RowsOfChunk DEF RowsAt
<1>3. IsFiniteSet(S) /\ IsFiniteSet(T)
  BY <1>1, FS_Interval
<1>4. S \ {1} = Values(next, T)
  <2>1. ASSUME NEW n \in S \ {1} PROVE n \in Values(next, T)
    <3>1. n - 1 \in T /\ next[n - 1] = n
      BY <1>1, <2>1
    <3> QED BY <3>1 DEF Values
  <2>2. ASSUME NEW n \in Values(next, T) PROVE n \in S \ {1}
    <3>1. PICK m \in T : n = next[m]
      BY <2>2 DEF Values
    <3> QED BY <1>1, <3>1
  <2> QED BY <2>1, <2>2
<1>5. \A m, n \in T : next[m] = next[n] => m = n
  OBVIOUS
<1>6. \A n \in T : RowsAt(r)[n] \in Int /\ RowsAt(q)[next[n]] = RowsAt(r)[n]
  BY <1>1, RowsOfChunk DEF RowsAt
<1>7. RowsAt(q)[1] = RowsOf(Head(q))
  BY <1>1 DEF RowsAt
<1> HIDE DEF r, S, T, next
<1>8. SumFunctionOnSet(RowsAt(q), S)
        = RowsAt(q)[1] + SumFunctionOnSet(RowsAt(q), S \ {1})
  BY <1>1, <1>2, <1>3, SumWithout
<1>9. SumFunctionOnSet(RowsAt(q), Values(next, T)) = SumFunctionOnSet(RowsAt(r), T)
  BY <1>3, <1>5, <1>6, SumMoved
<1> QED BY <1>4, <1>7, <1>8, <1>9 DEF InFlight, r, S, T

LEMMA PlanIsFinite == IsFiniteSet(PlannedFiles)
<1>1. PlannedFiles = Values(Plan, 1 .. Len(Plan))
  BY DEF PlannedFiles, Values
<1>2. IsFiniteSet(1 .. Len(Plan))
  BY PipelineAssumption, FS_Interval
<1> QED BY <1>1, <1>2, FiniteImage

\* What is opened is of the plan, and what is sent of it is a number.
LEMMA OpenedIsFinite ==
    ASSUME IInv, BalanceInv
    PROVE  /\ IsFiniteSet(OpenedFiles)
           /\ \A f \in OpenedFiles : sent[f] \in Int
           /\ SumFunctionOnSet(sent, OpenedFiles) \in Int
<1>1. OpenedFiles \subseteq PlannedFiles
  BY DEF OpenedFiles, BalanceInv, IInv, ReaderInv
<1>2. IsFiniteSet(OpenedFiles)
  BY <1>1, PlanIsFinite, FS_Subset
<1>3. \A f \in OpenedFiles : sent[f] \in Int
  <2>1. sent \in [Files -> Nat]
    BY DEF IInv, TypeOK, ReaderTypes
  <2> QED BY <2>1 DEF OpenedFiles
<1> QED BY <1>2, <1>3, SumIsNumber

\* A process that starts, and one that is gone, has sent and seen nothing.
LEMMA FreshBalances ==
    ASSUME Fresh
    PROVE  BalanceInv'
<1>1. /\ stage' = [f \in Files |-> "planned"] /\ content' = [f \in Files |-> 0]
      /\ chunks' = <<>> /\ stats' = NoStats
  BY DEF Fresh
<1>2. OpenedFiles' = {}
  BY <1>1 DEF OpenedFiles
<1>3. InFlight(chunks)' = 0
  <2>1. InFlight(chunks') = 0
    BY <1>1, NothingInFlight
  <2> QED BY <2>1 DEF InFlight, RowsAt, RowsOf
<1>4. SumFunctionOnSet(sent, OpenedFiles)' = 0
  BY <1>2, SumOfNothing
<1>5. stats'.seen = 0 /\ stats'.written = 0 /\ stats'.rejected = 0 /\ stats'.collapsed = 0
  BY <1>1 DEF NoStats
<1> QED BY <1>1, <1>3, <1>4, <1>5 DEF BalanceInv

\* Nothing that is counted changes.
LEMMA SameBalance ==
    ASSUME BalanceInv, UNCHANGED <<content, sent, chunks, writeErr, stats>>,
           \A f \in Files : stage'[f] # "planned" => stage[f] # "planned" \/ f \in PlannedFiles
    PROVE  BalanceInv'
<1>1. InFlight(chunks') = InFlight(chunks)
  OBVIOUS
<1>2. OpenedFiles' = OpenedFiles
  BY DEF OpenedFiles
<1> QED BY <1>1, <1>2 DEF BalanceInv, InFlight, RowsAt, RowsOf

\* A reader that opens its file has sent nothing of it; one that sends a batch puts as
\* many rows into the channel as it adds to what it has sent.
LEMMA ReaderKeepsBalance ==
    ASSUME IInv, BalanceInv, NEW f \in Files, Reader(f)
    PROVE  BalanceInv'
<1> USE DEF feeder, run, reader, writer
<1>1. /\ stage \in [Files -> Stages] /\ content \in [Files -> VersionOrNone]
      /\ sent \in [Files -> Nat] /\ pos \in [Files -> Nat] /\ chunks \in Seq(Chunk)
      /\ stats \in RunStats /\ upstream \in [Files -> VersionOrNone]
  BY DEF IInv, TypeOK, ReaderTypes, WriterTypes, DurableTypes
<1>2. stage[f] # "planned" /\ UNCHANGED <<writeErr, stats>>
  BY DEF Reader, Look, Open, OpenFails, ReadRow, BodyBreaks, RetryBrokenBody, SendBatch, SendEnd,
         SendMarker, AbandonSend, Handed, Reading, vars
<1>3. \A g \in Files : stage'[g] # "planned" => g \in PlannedFiles
  <2>1. f \in PlannedFiles
    BY <1>2 DEF BalanceInv
  <2>2. ASSUME NEW g \in Files, g # f PROVE stage'[g] = stage[g]
    BY <1>1, <2>2 DEF Reader, Look, Open, OpenFails, ReadRow, BodyBreaks, RetryBrokenBody,
       SendBatch, SendEnd, SendMarker, AbandonSend, MoveTo, vars
  <2> QED BY <2>1, <2>2 DEF BalanceInv
<1>4. /\ IsFiniteSet(OpenedFiles) /\ SumFunctionOnSet(sent, OpenedFiles) \in Int
      /\ \A g \in OpenedFiles : sent[g] \in Int
  BY OpenedIsFinite
<1>5. InFlight(chunks) \in Int /\ stats.seen \in Int
  BY <1>1, InFlightIsNumber DEF RunStats
<1>6. CASE UNCHANGED <<content, sent, chunks>>
  BY <1>2, <1>3, <1>6, SameBalance DEF BalanceInv
<1>7. CASE Open(f)
  <2>1. /\ content' = [content EXCEPT ![f] = upstream[f]] /\ sent' = [sent EXCEPT ![f] = 0]
        /\ UNCHANGED chunks /\ stage[f] = "found"
    BY <1>7 DEF Open
  <2>2. upstream[f] # 0 /\ content[f] = 0
    BY <2>1 DEF IInv, TypeOK, ReaderTypes, ReaderInv
  <2>3. f \notin OpenedFiles /\ OpenedFiles' = OpenedFiles \cup {f}
    BY <1>1, <2>1, <2>2 DEF OpenedFiles
  <2>4. sent'[f] = 0 /\ \A g \in OpenedFiles : sent'[g] = sent[g]
    BY <1>1, <2>1, <2>3 DEF OpenedFiles
  <2>5. IsFiniteSet(OpenedFiles') /\ f \in OpenedFiles' /\ OpenedFiles' \ {f} = OpenedFiles
    BY <1>4, <2>3, FS_AddElement
  <2>6. \A g \in OpenedFiles' : sent'[g] \in Int
    BY <1>4, <2>3, <2>4
  <2>7. SumFunctionOnSet(sent', OpenedFiles')
          = sent'[f] + SumFunctionOnSet(sent', OpenedFiles' \ {f})
    BY <2>5, <2>6, SumWithout
  <2>8. SumFunctionOnSet(sent', OpenedFiles) = SumFunctionOnSet(sent, OpenedFiles)
    BY <1>4, <2>4, SumOfSame
  <2>9. SumFunctionOnSet(sent', OpenedFiles') = SumFunctionOnSet(sent, OpenedFiles)
    BY <1>4, <2>4, <2>5, <2>7, <2>8
  <2>10. InFlight(chunks') = InFlight(chunks)
    BY <2>1
  <2> QED BY <1>2, <1>3, <2>9, <2>10 DEF BalanceInv, InFlight, RowsAt, RowsOf
<1>8. CASE SendBatch(f)
  <2> DEFINE c == [kind |-> "rows", file |-> f, from |-> sent[f], to |-> pos[f]]
  <2>1. /\ chunks' = Append(chunks, c) /\ sent' = [sent EXCEPT ![f] = pos[f]]
        /\ UNCHANGED content /\ stage[f] = "reading"
    BY <1>8 DEF SendBatch, Send, Reading
  <2>2. c \in Chunk /\ RowsOf(c) = pos[f] - sent[f]
    BY <1>1 DEF Chunk, Kinds, RowsOf
  <2>3. f \in OpenedFiles /\ OpenedFiles' = OpenedFiles
    BY <2>1 DEF OpenedFiles, IInv, TypeOK, ReaderTypes
  <2>4. sent[f] \in Int /\ pos[f] \in Int /\ sent'[f] = pos[f]
        /\ \A g \in OpenedFiles \ {f} : sent'[g] = sent[g]
    BY <1>1, <2>1 DEF OpenedFiles
  <2>5. \A g \in OpenedFiles : sent'[g] \in Int
    BY <1>4, <2>4
  <2> HIDE DEF c
  <2>6. InFlight(chunks') = InFlight(chunks) + (pos[f] - sent[f])
    BY <1>1, <2>1, <2>2, SentIsInFlight
  <2>7. SumFunctionOnSet(sent', OpenedFiles)
          = sent'[f] + SumFunctionOnSet(sent', OpenedFiles \ {f})
    BY <1>4, <2>3, <2>5, SumWithout
  <2>8. SumFunctionOnSet(sent, OpenedFiles)
          = sent[f] + SumFunctionOnSet(sent, OpenedFiles \ {f})
    BY <1>4, <2>3, SumWithout
  <2>9. IsFiniteSet(OpenedFiles \ {f})
    BY <1>4, FS_RemoveElement
  <2>10. SumFunctionOnSet(sent', OpenedFiles \ {f}) = SumFunctionOnSet(sent, OpenedFiles \ {f})
    BY <2>4, <2>9, SumOfSame
  <2>11. SumFunctionOnSet(sent, OpenedFiles \ {f}) \in Int
    <3>1. \A g \in OpenedFiles \ {f} : sent[g] \in Int
      BY <1>4
    <3> QED BY <2>9, <3>1, SumIsNumber
  <2>12. SumFunctionOnSet(sent', OpenedFiles')
           = SumFunctionOnSet(sent, OpenedFiles) + (pos[f] - sent[f])
    BY <2>3, <2>4, <2>7, <2>8, <2>10, <2>11
  <2>13. stats.seen + InFlight(chunks) = SumFunctionOnSet(sent, OpenedFiles)
    BY DEF BalanceInv
  <2>14. stats'.seen + InFlight(chunks') = SumFunctionOnSet(sent', OpenedFiles')
    BY <1>2, <1>4, <1>5, <2>4, <2>6, <2>12, <2>13
  <2> QED BY <1>2, <1>3, <2>14 DEF BalanceInv, InFlight, RowsAt, RowsOf
<1>9. CASE SendEnd(f) \/ SendMarker(f)
  <2>1. UNCHANGED <<content, sent>>
        /\ \E kind \in {"end", "missing", "unchanged"} :
             chunks' = Append(chunks, [kind |-> kind, file |-> f, from |-> 0, to |-> 0])
    BY <1>9 DEF SendEnd, SendMarker, Send
  <2>2. PICK kind \in {"end", "missing", "unchanged"} :
             chunks' = Append(chunks, [kind |-> kind, file |-> f, from |-> 0, to |-> 0])
    BY <2>1
  <2> DEFINE c == [kind |-> kind, file |-> f, from |-> 0, to |-> 0]
  <2>3. c \in Chunk /\ RowsOf(c) = 0 /\ chunks' = Append(chunks, c)
    BY <2>2 DEF Chunk, Kinds, RowsOf
  <2> HIDE DEF c
  <2>4. InFlight(chunks') = InFlight(chunks)
    BY <1>1, <1>5, <2>3, SentIsInFlight
  <2>5. OpenedFiles' = OpenedFiles
    BY <2>1 DEF OpenedFiles
  <2>6. SumFunctionOnSet(sent', OpenedFiles') = SumFunctionOnSet(sent, OpenedFiles)
    BY <2>1, <2>5
  <2> QED BY <1>2, <1>3, <2>4, <2>6 DEF BalanceInv, InFlight, RowsAt, RowsOf
<1>10. Open(f) \/ SendBatch(f) \/ SendEnd(f) \/ SendMarker(f)
         \/ UNCHANGED <<content, sent, chunks>>
  BY DEF Reader, Look, OpenFails, ReadRow, BodyBreaks, RetryBrokenBody, AbandonSend, vars
<1> QED BY <1>6, <1>7, <1>8, <1>9, <1>10

\* What the writer takes out of the channel it counts: as rejected the rows that do not
\* parse and, unless a write fails, every other row as written or collapsed.
LEMMA WriterKeepsBalance ==
    ASSUME IInv, BalanceInv, Writer
    PROVE  BalanceInv'
<1> USE DEF feeder, run, reader, writer
<1>1. /\ chunks \in Seq(Chunk) /\ chunks # <<>> /\ stats \in RunStats
      /\ chunks' = Tail(chunks) /\ UNCHANGED <<stage, content, sent>>
  BY DEF IInv, TypeOK, WriterTypes, Writer, ReceiveMarker, WriteBatch, WriteFails, DrainBatch,
     EndFile, Receives
<1> DEFINE c == Head(chunks)
<1>2. c \in Chunk
  BY <1>1
<1>3. InFlight(chunks) = RowsOf(c) + InFlight(chunks')
  BY <1>1, ReceivedIsOut
<1>4. InFlight(chunks') \in Int /\ RowsOf(c) \in Int
  <2>1. Tail(chunks) \in Seq(Chunk)
    BY <1>1
  <2> QED BY <1>1, <1>2, <2>1, InFlightIsNumber, RowsOfChunk
<1>5. SumFunctionOnSet(sent', OpenedFiles') = SumFunctionOnSet(sent, OpenedFiles)
  BY <1>1 DEF OpenedFiles
<1>6. SumFunctionOnSet(sent, OpenedFiles) \in Int
  BY OpenedIsFinite
<1> DEFINE good == Cardinality(GoodRows(c.file, content[c.file], c.from, c.to))
           matches == Cardinality(KeysIn(c.file, content[c.file], c.from, c.to))
<1>7. c.from \in Nat /\ c.to \in Nat /\ good \in Int /\ matches \in Int
  BY <1>2, BatchIsFinite DEF Chunk
<1>8. /\ stats.seen \in Int /\ stats.written \in Int /\ stats.rejected \in Int
      /\ stats.collapsed \in Int
  BY <1>1 DEF RunStats
<1>9. /\ stats'.seen = stats.seen + RowsOf(c)
      /\ ~writeErr' => stats'.seen = stats'.written + stats'.rejected + stats'.collapsed
  <2>1. ~writeErr => stats.seen = stats.written + stats.rejected + stats.collapsed
    BY DEF BalanceInv
  <2>2. CASE ReceiveMarker \/ EndFile
    <3>1. c.kind # "rows" /\ UNCHANGED writeErr
          /\ stats' \in {[stats EXCEPT !.missing = @ + 1], [stats EXCEPT !.skipped = @ + 1],
                          [stats EXCEPT !.read = @ + 1]}
      BY <2>2 DEF ReceiveMarker, EndFile, Receives
    <3>2. /\ stats'.seen = stats.seen /\ stats'.written = stats.written
          /\ stats'.rejected = stats.rejected /\ stats'.collapsed = stats.collapsed
      BY <1>1, <3>1 DEF RunStats
    <3> QED BY <1>8, <2>1, <3>1, <3>2 DEF RowsOf
  <2>3. CASE WriteBatch
    <3>1. c.kind = "rows" /\ ~writeErr /\ stats' = Counted(c, matches, good - matches)
      BY <2>3 DEF WriteBatch, Receives
    <3>2. /\ stats'.seen = stats.seen + (c.to - c.from)
          /\ stats'.written = stats.written + matches
          /\ stats'.rejected = stats.rejected + (c.to - c.from) - good
          /\ stats'.collapsed = stats.collapsed + (good - matches)
      BY <3>1 DEF Counted
    <3>3. RowsOf(c) = c.to - c.from
      BY <3>1 DEF RowsOf
    <3> HIDE DEF c, good, matches
    <3> QED BY <1>7, <1>8, <2>1, <3>1, <3>2, <3>3
  <2>4. CASE WriteFails \/ DrainBatch
    <3>1. c.kind = "rows" /\ writeErr' /\ stats' = Counted(c, 0, 0)
      BY <2>4 DEF WriteFails, DrainBatch, Receives
    <3> QED BY <3>1 DEF Counted, RowsOf
  <2> QED BY <2>2, <2>3, <2>4 DEF Writer
<1> HIDE DEF c, good, matches
<1>10. stats.seen + InFlight(chunks) = SumFunctionOnSet(sent, OpenedFiles)
  BY DEF BalanceInv
<1>11. stats'.seen + InFlight(chunks') = SumFunctionOnSet(sent', OpenedFiles')
  BY <1>3, <1>4, <1>5, <1>6, <1>8, <1>9, <1>10
<1> QED BY <1>1, <1>9, <1>11 DEF BalanceInv, InFlight, RowsAt, RowsOf

LEMMA NextBalanceInv ==
    ASSUME IInv, BalanceInv, [Next]_vars
    PROVE  BalanceInv'
<1> USE DEF feeder, run, reader, writer
<1>1. ASSUME NEW f \in Files, Publish(f)
      PROVE  BalanceInv'
  BY <1>1, SameBalance DEF Publish
<1>2. ASSUME NEW f \in Files, Reader(f)
      PROVE  BalanceInv'
  BY <1>2, ReaderKeepsBalance
<1>3. CASE Cancel \/ FeederStops \/ UNCHANGED vars
  BY <1>3, SameBalance DEF Cancel, FeederStops, vars
<1>4. CASE Feed
  <2>1. nextJob \in 1 .. Len(Plan) /\ Plan \in Seq(Files) /\ stage \in [Files -> Stages]
    BY <1>4, PipelineAssumption DEF Feed, IInv, TypeOK, RunTypes, ReaderTypes
  <2>2. Plan[nextJob] \in PlannedFiles
    BY <2>1 DEF PlannedFiles
  <2>3. \A f \in Files : stage'[f] # "planned" => stage[f] # "planned" \/ f \in PlannedFiles
    BY <1>4, <2>1, <2>2 DEF Feed
  <2> QED BY <1>4, <2>3, SameBalance DEF Feed
<1>5. CASE Kill \/ StartRun \/ Finish
  BY <1>5, FreshBalances DEF Kill, StartRun, Finish
<1>6. CASE Writer
  BY <1>6, WriterKeepsBalance
<1> QED BY <1>1, <1>2, <1>3, <1>4, <1>5, <1>6 DEF Next

LEMMA InitBalanceInv == Init => BalanceInv
<1> SUFFICES ASSUME Init PROVE BalanceInv
  OBVIOUS
<1>1. OpenedFiles = {} /\ chunks = <<>> /\ stats = NoStats
      /\ \A f \in Files : stage[f] = "planned"
  BY DEF Init, OpenedFiles
<1>2. InFlight(chunks) = 0 /\ SumFunctionOnSet(sent, OpenedFiles) = 0
  BY <1>1, NothingInFlight, SumOfNothing
<1> QED BY <1>1, <1>2 DEF BalanceInv, NoStats

\* "The counts have to balance": a run that ends well has counted every row of every
\* file it opened exactly once, as written, rejected or collapsed (RunStats, flush).
THEOREM CountsBalance == Spec => SummaryBalances
<1>1. Init => PlanInv
  BY DEF Init, PlanInv
<1>2. ASSUME IInv, PlanInv, BalanceInv, [Next]_vars, phase = "running", outcome' = "ok"
      PROVE  /\ stats.seen = stats.written + stats.rejected + stats.collapsed
             /\ stats.seen = SumFunction([f \in OpenedFiles |-> Rows(f)])
  <2>1. Finish /\ outcome' # "error"
    BY <1>2, GoodRunsFinish
  <2>2. BusyFiles = {} /\ FailedFiles = {} /\ chunks = <<>> /\ ~writeErr
    BY <2>1 DEF Finish, ReadersGone
  <2>3. ASSUME NEW f \in OpenedFiles
        PROVE  sent[f] = Rows(f)
    <3>1. f \in Files /\ content[f] # 0 /\ stage[f] \in Stages
      BY <1>2 DEF OpenedFiles, IInv, TypeOK, ReaderTypes
    <3>2. stage[f] = "done"
      BY <1>2, <2>2, <3>1 DEF BusyFiles, FailedFiles, Busy, Stages, IInv, ReaderInv
    <3> QED BY <1>2, <3>1, <3>2 DEF PlanInv
  <2> DEFINE rows == [f \in OpenedFiles |-> Rows(f)]
  <2>4. IsFiniteSet(OpenedFiles) /\ SumFunctionOnSet(sent, OpenedFiles) \in Int
    BY <1>2, OpenedIsFinite
  <2>5. SumFunction(rows) = SumFunctionOnSet(rows, OpenedFiles)
    BY DEF SumFunction
  <2>6. \A f \in OpenedFiles : sent[f] = rows[f]
    BY <2>3
  <2> HIDE DEF rows
  <2>7. SumFunctionOnSet(sent, OpenedFiles) = SumFunctionOnSet(rows, OpenedFiles)
    BY <2>4, <2>6, SumOfSame
  <2>8. InFlight(chunks) = 0 /\ stats.seen \in Int
    BY <1>2, <2>2, NothingInFlight DEF IInv, TypeOK, WriterTypes, RunStats
  <2>9. stats.seen = SumFunctionOnSet(sent, OpenedFiles)
    BY <1>2, <2>4, <2>8 DEF BalanceInv
  <2>10. stats.seen = stats.written + stats.rejected + stats.collapsed
    BY <1>2, <2>2 DEF BalanceInv
  <2> QED BY <2>5, <2>7, <2>9, <2>10 DEF rows
<1>3. IInv /\ PlanInv /\ BalanceInv /\ [Next]_vars =>
        (phase = "running" /\ outcome' = "ok" =>
           /\ stats.seen = stats.written + stats.rejected + stats.collapsed
           /\ stats.seen = SumFunction([f \in OpenedFiles |-> Rows(f)]))
  BY <1>2
<1> QED BY <1>1, <1>3, InitBalanceInv, NextBalanceInv, NextPlanInv, PipelineInvariant, PTL
    DEF Spec, SummaryBalances

=============================================================================

-------------------------- MODULE WorkerDataProofs --------------------------
(***************************************************************************)
(* Proofs about the data a worker reads and writes: the incremental REST    *)
(* Source never skips or repeats a record between two successful runs, and  *)
(* the files of local storage agree with the rows and the descriptors that  *)
(* name them, whatever write, cleanup or crash comes in between.            *)
(***************************************************************************)
EXTENDS LocalStorage, RestSource, TLAPS

-----------------------------------------------------------------------------
(* RestSource *)

\* The records after one position, up to another.
Between(from, to) == {r \in Records : from < r /\ r <= to}

\* The memory of a run: nothing of it is left outside one, and what it has
\* proposed is what it would propose now.
RunMemory ==
  /\ phase = "idle" => since = Null /\ token = Null /\ pages = {}
  /\ phase # "idle" => config.checkpointPath = config.checkpointParameter
  /\ phase \in {"idle", "paging", "fetched"} => candidate = Unknown
  /\ phase \in {"stored", "succeeded"} => candidate = ProposedCheckpoint
  /\ checkpoint <= log /\ value <= log /\ token <= log
  /\ (phase # "idle" /\ ~ config.checkpointPath) => value = checkpoint /\ since = Null

\* While a Source that remembers its position follows page tokens, it has read
\* everything from the committed watermark to where it is; there are more
\* records after a token, so that the next page is not empty.
PagesSoFar ==
  (config.checkpointPath /\ phase = "paging") =>
    \/ since = Unknown /\ token = Null
    \/ /\ since = checkpoint /\ since <= Position /\ Position <= log
       /\ (token # Null => token < log)
       /\ pages = Between(since, Position)

\* Afterwards the watermark stands at the end of what was read, unless the API
\* answered with an empty page and forgot it.
WatermarkEndsPages ==
  (config.checkpointPath /\ phase \in {"fetched", "stored", "succeeded"}) =>
    /\ since = checkpoint
    /\ \/ since <= value /\ pages = Between(since, value)
       \/ value = Null /\ pages = {} /\ api.empty = "null"

\* A run that has succeeded has delivered its pages, and nothing beyond the
\* watermark was delivered before it is committed.
SucceededIsDelivered == phase = "succeeded" => \A r \in pages : delivered[r] > 0
NothingBeyond ==
  (config.checkpointPath /\ api.empty = "echo" /\ ~ lost) =>
    \A r \in Records : (IF phase = "succeeded" THEN value ELSE checkpoint) < r => delivered[r] = 0

SourceInv ==
  /\ SourceTypeOK /\ RunMemory /\ PagesSoFar /\ WatermarkEndsPages
  /\ SucceededIsDelivered /\ NothingBeyond /\ NoGap /\ NothingTwice

LEMMA SourceBounds ==
  /\ MaxRecords \in Nat /\ MaxRunFaults \in Nat /\ PageSize \in Nat /\ PageSize > 0
  /\ Unknown = MaxRecords + 1 /\ Records \subseteq Nat
  BY SourceAssumption DEF Unknown, Records

\* The settings of a Source and of its API.
LEMMA SettingsTyped ==
  ASSUME SourceTypeOK
  PROVE  /\ config.maxPages \in Nat /\ config.checkpointPath \in BOOLEAN
         /\ config.checkpointParameter \in BOOLEAN /\ config.nextPagePath \in BOOLEAN
         /\ api.empty \in {"echo", "null"} /\ api.capitals \in BOOLEAN
  BY SourceAssumption, SMTT(20) DEF SourceTypeOK, Settings

LEMMA SourceInitInv == SourceInit => SourceInv
  <1> SUFFICES ASSUME SourceInit PROVE SourceInv
    OBVIOUS
  <1> USE SourceBounds DEF SourceInit
  <1>1. config.maxPages \in Nat
    BY SourceAssumption DEF Settings
  <1>2. SourceTypeOK
    <2>1. /\ {log, checkpoint, token} \subseteq 0..MaxRecords /\ {since, value, candidate} \subseteq 0..Unknown
          /\ count \in 0..config.maxPages /\ runFaults \in 0..MaxRunFaults
      BY <1>1 DEF Null
    <2>2. delivered \in [Records -> 0..2]
      OBVIOUS
    <2> QED
      BY <2>1, <2>2 DEF SourceTypeOK
  <1>3. RunMemory /\ PagesSoFar /\ WatermarkEndsPages /\ SucceededIsDelivered
    BY DEF RunMemory, PagesSoFar, WatermarkEndsPages, SucceededIsDelivered, Null
  <1>4. NothingBeyond /\ NoGap /\ NothingTwice
    BY DEF NothingBeyond, NoGap, NothingTwice, Null, Records
  <1> QED
    BY <1>2, <1>3, <1>4 DEF SourceInv

\* A record that appears is after every position.
LEMMA AppendRecordInv == ASSUME SourceInv, AppendRecord PROVE SourceInv'
  <1> USE SourceBounds DEF SourceInv
  <1>1. /\ log \in Nat /\ log' = log + 1 /\ log' \in 0..MaxRecords
        /\ UNCHANGED <<api, config, checkpoint, phase, since, token, value, count, pages, candidate,
                       delivered, lost, runFaults>>
    BY DEF AppendRecord, SourceTypeOK, settings, outcome
  <1>2. SourceTypeOK'
    BY <1>1 DEF SourceTypeOK
  <1>3. RunMemory'
    BY <1>1 DEF RunMemory, ProposedCheckpoint, SourceTypeOK
  <1>4. PagesSoFar'
    BY <1>1 DEF PagesSoFar, Position, SourceTypeOK
  <1>5. WatermarkEndsPages' /\ SucceededIsDelivered'
    BY <1>1 DEF WatermarkEndsPages, SucceededIsDelivered
  <1>6. NothingBeyond' /\ NoGap' /\ NothingTwice'
    BY <1>1 DEF NothingBeyond, NoGap, NothingTwice
  <1> QED
    BY <1>2, <1>3, <1>4, <1>5, <1>6

\* A run that ends without success leaves the committed watermark and what was
\* delivered as they are.
LEMMA EndRunInv ==
  ASSUME SourceInv, EndRun, phase # "succeeded", runFaults' \in 0..MaxRunFaults,
         UNCHANGED <<api, config, log, checkpoint, delivered, lost>>
  PROVE  SourceInv'
  <1> USE SourceBounds DEF SourceInv, EndRun, Null
  <1>1. SourceTypeOK'
    BY SettingsTyped DEF SourceTypeOK
  <1>2. RunMemory' /\ PagesSoFar' /\ WatermarkEndsPages' /\ SucceededIsDelivered'
    BY DEF RunMemory, PagesSoFar, WatermarkEndsPages, SucceededIsDelivered, SourceTypeOK
  <1>3. NothingBeyond' /\ NoGap' /\ NothingTwice'
    BY DEF NothingBeyond, NoGap, NothingTwice
  <1> QED
    BY <1>1, <1>2, <1>3

\* A run starts at the committed watermark, or with one the API refuses.
LEMMA StartRunInv == ASSUME SourceInv, StartRun PROVE SourceInv'
  <1> USE SourceBounds DEF SourceInv
  <1>1. /\ phase = "idle" /\ phase' = "paging" /\ value' = checkpoint /\ FromRequest
        /\ since' = ApplyCheckpointQueryParameters(checkpoint)
        /\ UNCHANGED <<api, config, log, checkpoint, token, count, pages, candidate, delivered, lost, runFaults>>
    BY DEF StartRun, LoadCheckpoint, settings, outcome
  <1>2. checkpoint \in 0..MaxRecords /\ token = Null /\ pages = {} /\ candidate = Unknown
    BY <1>1 DEF SourceTypeOK, RunMemory
  <1>3. /\ since' \in 0..Unknown
        /\ config.checkpointPath => since' \in {checkpoint, Unknown}
        /\ ~ config.checkpointPath => since' = Null
    BY <1>1, <1>2, SettingsTyped DEF ApplyCheckpointQueryParameters, FromRequest, Null
  <1>4. SourceTypeOK'
    BY <1>1, <1>2, <1>3 DEF SourceTypeOK
  <1>5. RunMemory'
    BY <1>1, <1>2, <1>3 DEF RunMemory, FromRequest, SourceTypeOK
  <1>6. PagesSoFar'
    <2>1. Position' = since' /\ checkpoint <= log /\ checkpoint \in Nat
      BY <1>1, <1>2 DEF Position, RunMemory
    <2>2. Between(checkpoint, checkpoint) = {}
      BY <2>1 DEF Between, Records
    <2> QED
      BY <1>1, <1>2, <1>3, <2>1, <2>2 DEF PagesSoFar
  <1>7. WatermarkEndsPages' /\ SucceededIsDelivered' /\ NothingBeyond' /\ NoGap' /\ NothingTwice'
    BY <1>1 DEF WatermarkEndsPages, SucceededIsDelivered, NothingBeyond, NoGap, NothingTwice
  <1> QED
    BY <1>4, <1>5, <1>6, <1>7

\* One page: the records right after the position, and the new watermark.
LEMMA PageFacts ==
  ASSUME SourceInv, phase = "paging", Position # Unknown
  PROVE  /\ PageEnd \in 0..log /\ PageEnd \in Nat
         /\ NextToken \in 0..log /\ (NextToken # Null => NextToken = PageEnd /\ NextToken < log)
         /\ config.checkpointPath =>
              /\ since = checkpoint /\ Position <= PageEnd /\ since <= Position
              /\ pages \cup PageRecords = Between(since, PageEnd)
              /\ Watermark \in 0..log
              /\ \/ Watermark = PageEnd
                 \/ Watermark = Null /\ api.empty = "null" /\ Between(since, PageEnd) = {}
  <1> USE SourceBounds DEF SourceInv
  <1>1. /\ log \in 0..MaxRecords /\ token \in 0..MaxRecords /\ since \in 0..Unknown
        /\ Position \in Nat /\ checkpoint \in 0..MaxRecords
    BY DEF SourceTypeOK, Position
  <1>2. PageEnd \in 0..log /\ PageEnd \in Nat
    BY <1>1 DEF PageEnd
  <1>3. NextToken \in 0..log /\ (NextToken # Null => NextToken = PageEnd /\ NextToken < log)
    BY <1>1, <1>2 DEF NextToken, Null
  <1>4. ASSUME config.checkpointPath
        PROVE  /\ since = checkpoint /\ Position <= PageEnd /\ since <= Position
               /\ pages \cup PageRecords = Between(since, PageEnd)
               /\ Watermark \in 0..log
               /\ \/ Watermark = PageEnd
                  \/ Watermark = Null /\ api.empty = "null" /\ Between(since, PageEnd) = {}
    <2>1. /\ since = checkpoint /\ since <= Position /\ Position <= log
          /\ (token # Null => token < log) /\ pages = Between(since, Position)
      BY <1>1, <1>4 DEF PagesSoFar, Position, Null
    <2>2. Position <= PageEnd /\ (token # Null => Position < PageEnd)
      BY <1>1, <2>1 DEF PageEnd, Position, Null
    <2>3. pages \cup PageRecords = Between(since, PageEnd)
      BY <1>1, <1>2, <2>1, <2>2 DEF Between, PageRecords, Records
    <2>4. CASE PageRecords # {}
      BY <2>1, <2>2, <2>3, <2>4, <1>2 DEF Watermark
    <2>5. CASE PageRecords = {}
      <3>1. Position = PageEnd
        <4>1. Position < PageEnd => PageEnd \in PageRecords
          BY <1>1, <1>2 DEF PageRecords, Records
        <4> QED
          BY <1>1, <1>2, <2>2, <2>5, <4>1
      <3>2. token = Null /\ since = PageEnd
        BY <1>1, <1>2, <2>2, <3>1 DEF Position
      <3>3. Between(since, PageEnd) = {}
        BY <1>1, <1>2, <3>2 DEF Between, Records
      <3>4. Watermark = IF api.empty = "echo" THEN since ELSE Null
        BY <2>5 DEF Watermark
      <3> QED
        BY <1>1, <1>2, <2>1, <2>2, <2>3, <3>2, <3>3, <3>4, SettingsTyped DEF Null
    <2> QED
      BY <2>4, <2>5
  <1> QED
    BY <1>2, <1>3, <1>4

LEMMA ReadPageInv == ASSUME SourceInv, ReadPage PROVE SourceInv'
  <1> USE SourceBounds DEF SourceInv
  <1>1. /\ phase = "paging" /\ Position # Unknown /\ count < config.maxPages
        /\ UNCHANGED <<api, config, log, checkpoint, since, candidate, delivered, lost, runFaults>>
        /\ pages' = pages \cup PageRecords /\ count' = count + 1
        /\ value' = ResponseCheckpointValue /\ token' = ResponsePageToken
        /\ phase' = IF ResponsePageToken = Null THEN "fetched" ELSE "paging"
    BY DEF ReadPage, WithinPageLimit, settings, outcome
  <1>2. PICK end \in 0..log : end = PageEnd
    BY <1>1, PageFacts
  <1>3. /\ ResponsePageToken \in 0..log
        /\ ResponsePageToken # Null => ResponsePageToken = end /\ ResponsePageToken < log
    BY <1>1, <1>2, PageFacts DEF ResponsePageToken, Null, SourceTypeOK
  <1>4. ResponseCheckpointValue \in 0..log
    BY <1>1, PageFacts DEF ResponseCheckpointValue, RunMemory, SourceTypeOK
  <1>5. log \in 0..MaxRecords /\ since \in 0..Unknown /\ checkpoint \in 0..MaxRecords
    BY DEF SourceTypeOK
  <1>6. SourceTypeOK'
    <2>1. count' \in 0..config.maxPages
      BY <1>1, SettingsTyped DEF SourceTypeOK
    <2>2. pages' \subseteq Records
      BY <1>1 DEF PageRecords, SourceTypeOK
    <2>3. token' \in 0..MaxRecords /\ value' \in 0..Unknown
      BY <1>1, <1>3, <1>4, <1>5
    <2> QED
      BY <1>1, <2>1, <2>2, <2>3 DEF SourceTypeOK
  <1>7. RunMemory'
    BY <1>1, <1>3, <1>4, <1>5 DEF RunMemory, ResponseCheckpointValue
  <1>8. PagesSoFar'
    <2> SUFFICES ASSUME config.checkpointPath, phase' = "paging" PROVE PagesSoFar'
      BY <1>1 DEF PagesSoFar
    <2>1. token' = end /\ token' # Null /\ token' < log
      BY <1>1, <1>3
    <2>2. Position' = end
      BY <2>1 DEF Position
    <2>3. since = checkpoint /\ since <= end /\ pages' = Between(since, end)
      BY <1>1, <1>2, <1>5, PageFacts DEF Position, SourceTypeOK
    <2> QED
      BY <1>1, <1>2, <1>5, <2>1, <2>2, <2>3 DEF PagesSoFar
  <1>9. WatermarkEndsPages'
    <2> SUFFICES ASSUME config.checkpointPath PROVE WatermarkEndsPages'
      BY <1>1 DEF WatermarkEndsPages
    <2>1. value' = Watermark /\ pages' = Between(since, end) /\ since = checkpoint /\ since <= end
      BY <1>1, <1>2, <1>5, PageFacts DEF ResponseCheckpointValue, Position, SourceTypeOK
    <2>2. \/ Watermark = PageEnd
          \/ Watermark = Null /\ api.empty = "null" /\ Between(since, PageEnd) = {}
      BY <1>1, PageFacts
    <2>3. Watermark = end \/ (Watermark = Null /\ api.empty = "null" /\ pages' = {})
      BY <1>2, <2>1, <2>2
    <2> QED
      BY <1>1, <2>1, <2>3 DEF WatermarkEndsPages
  <1>10. SucceededIsDelivered' /\ NothingBeyond' /\ NoGap' /\ NothingTwice'
    BY <1>1 DEF SucceededIsDelivered, NothingBeyond, NoGap, NothingTwice
  <1> QED
    BY <1>6, <1>7, <1>8, <1>9, <1>10

LEMMA ProposeCheckpointInv == ASSUME SourceInv, ProposeCheckpoint PROVE SourceInv'
  <1> USE SourceBounds DEF SourceInv
  <1>1. /\ phase = "fetched" /\ phase' = "stored" /\ candidate' = ProposedCheckpoint
        /\ UNCHANGED <<api, config, log, checkpoint, since, token, value, count, pages, delivered, lost, runFaults>>
    BY DEF ProposeCheckpoint, settings, outcome
  <1>2. SourceTypeOK'
    BY <1>1 DEF SourceTypeOK, ProposedCheckpoint
  <1>3. RunMemory'
    BY <1>1 DEF RunMemory, ProposedCheckpoint
  <1>4. PagesSoFar' /\ WatermarkEndsPages' /\ SucceededIsDelivered'
    BY <1>1 DEF PagesSoFar, WatermarkEndsPages, SucceededIsDelivered
  <1>5. NothingBeyond' /\ NoGap' /\ NothingTwice'
    BY <1>1 DEF NothingBeyond, NoGap, NothingTwice
  <1> QED
    BY <1>2, <1>3, <1>4, <1>5

\* Success delivers what lies between the committed watermark and the next.
LEMMA SucceedRunInv == ASSUME SourceInv, SucceedRun PROVE SourceInv'
  <1> USE SourceBounds DEF SourceInv
  <1>1. /\ phase = "stored" /\ phase' = "succeeded"
        /\ UNCHANGED <<api, config, log, checkpoint, since, token, value, count, pages, candidate, lost, runFaults>>
    BY DEF SucceedRun, settings
  <1>2. delivered \in [Records -> 0..2] /\ value \in Nat /\ checkpoint \in Nat /\ pages \subseteq Records
    BY DEF SourceTypeOK
  <1>3. /\ delivered' \in [Records -> 0..2]
        /\ \A r \in Records : /\ delivered'[r] >= delivered[r]
                              /\ r \in pages => delivered'[r] > 0 /\ delivered'[r] <= delivered[r] + 1
                              /\ r \notin pages => delivered'[r] = delivered[r]
    BY <1>2 DEF SucceedRun
  <1>4. SourceTypeOK'
    BY <1>1, <1>3 DEF SourceTypeOK
  <1>5. RunMemory' /\ PagesSoFar' /\ WatermarkEndsPages'
    BY <1>1 DEF RunMemory, PagesSoFar, WatermarkEndsPages, ProposedCheckpoint
  <1>6. SucceededIsDelivered'
    BY <1>1, <1>2, <1>3 DEF SucceededIsDelivered
  <1>7. NoGap'
    BY <1>1, <1>2, <1>3 DEF NoGap
  <1>8. NothingBeyond' /\ NothingTwice'
    <2> SUFFICES ASSUME config.checkpointPath, api.empty = "echo", ~ lost, NEW r \in Records
                 PROVE  delivered'[r] < 2 /\ (value < r => delivered'[r] = 0)
      BY <1>1 DEF NothingBeyond, NothingTwice
    <2>1. pages = Between(checkpoint, value) /\ checkpoint <= value
      BY <1>1 DEF WatermarkEndsPages
    <2>2. checkpoint < r => delivered[r] = 0
      BY <1>1 DEF NothingBeyond
    <2>3. r \in pages <=> checkpoint < r /\ r <= value
      BY <2>1 DEF Between
    <2>4. delivered[r] < 2
      BY DEF NothingTwice
    <2> QED
      BY <1>2, <1>3, <2>1, <2>2, <2>3, <2>4
  <1> QED
    BY <1>4, <1>5, <1>6, <1>7, <1>8

\* The watermark moves over records that were delivered, and over all of them.
LEMMA CommitWatermarkInv == ASSUME SourceInv, CommitAfterRunSuccess PROVE SourceInv'
  <1> USE SourceBounds DEF SourceInv
  <1>1. /\ phase = "succeeded" /\ phase' = "idle" /\ since' = Null /\ token' = Null /\ value' = Null
        /\ count' = 0 /\ pages' = {} /\ candidate' = Unknown
        /\ checkpoint' = IF candidate = Unknown THEN checkpoint ELSE candidate
        /\ UNCHANGED <<api, config, log, delivered, lost, runFaults>>
    BY DEF CommitAfterRunSuccess, EndRun, settings
  <1>2. /\ value \in 0..log /\ log \in 0..MaxRecords /\ checkpoint \in 0..log
        /\ delivered \in [Records -> 0..2] /\ value # Unknown
    BY DEF SourceTypeOK, RunMemory
  <1>3. /\ checkpoint' \in {checkpoint, value}
        /\ config.checkpointPath => checkpoint' = value
    BY <1>1, <1>2 DEF RunMemory, ProposedCheckpoint
  <1>4. SourceTypeOK'
    BY <1>1, <1>2, <1>3, SettingsTyped DEF SourceTypeOK, Null
  <1>5. RunMemory' /\ PagesSoFar' /\ WatermarkEndsPages' /\ SucceededIsDelivered'
    BY <1>1, <1>2, <1>3 DEF RunMemory, PagesSoFar, WatermarkEndsPages, SucceededIsDelivered, Null
  <1>6. NoGap'
    <2> SUFFICES ASSUME config.checkpointPath, NEW r \in Records, r <= value PROVE delivered[r] > 0
      BY <1>1, <1>3 DEF NoGap
    <2>1. value # 0
      BY <1>2 DEF Records
    <2>2. pages = Between(checkpoint, value)
      BY <1>1, <2>1 DEF WatermarkEndsPages, Null
    <2>3. r \in pages \/ r <= checkpoint
      BY <1>2, <2>2 DEF Between
    <2> QED
      BY <1>1, <2>3 DEF NoGap, SucceededIsDelivered
  <1>7. NothingBeyond' /\ NothingTwice'
    BY <1>1, <1>3 DEF NothingBeyond, NothingTwice
  <1> QED
    BY <1>4, <1>5, <1>6, <1>7

LEMMA LoseCommitInv == ASSUME SourceInv, LoseCommit PROVE SourceInv'
  <1> USE SourceBounds DEF SourceInv
  <1>1. /\ phase' = "idle" /\ since' = Null /\ token' = Null /\ value' = Null
        /\ count' = 0 /\ pages' = {} /\ candidate' = Unknown /\ lost' = TRUE
        /\ runFaults' \in 0..MaxRunFaults /\ UNCHANGED <<api, config, log, checkpoint, delivered>>
    BY DEF LoseCommit, EndRun, settings, SourceTypeOK
  <1>2. SourceTypeOK'
    BY <1>1, SettingsTyped DEF SourceTypeOK, Null
  <1>3. RunMemory' /\ PagesSoFar' /\ WatermarkEndsPages' /\ SucceededIsDelivered'
    BY <1>1 DEF RunMemory, PagesSoFar, WatermarkEndsPages, SucceededIsDelivered, SourceTypeOK, Null
  <1>4. NothingBeyond' /\ NoGap' /\ NothingTwice'
    BY <1>1 DEF NothingBeyond, NoGap, NothingTwice
  <1> QED
    BY <1>2, <1>3, <1>4

LEMMA SourceNextInv == ASSUME SourceInv, [SourceNext]_sourceVars PROVE SourceInv'
  <1>1. CASE ExceedPageLimit \/ RejectRequest \/ FailRun
    <2>1. /\ EndRun /\ phase # "succeeded" /\ runFaults' \in 0..MaxRunFaults
          /\ UNCHANGED <<api, config, log, checkpoint, delivered, lost>>
      BY <1>1, SourceBounds DEF ExceedPageLimit, RejectRequest, FailRun, DiscardRun, settings, outcome,
        SourceInv, SourceTypeOK
    <2> QED
      BY <2>1, EndRunInv
  <1>2. CASE UNCHANGED sourceVars
    BY <1>2 DEF sourceVars, SourceInv, SourceTypeOK, RunMemory, PagesSoFar, WatermarkEndsPages, Position,
      SucceededIsDelivered, NothingBeyond, NoGap, NothingTwice, ProposedCheckpoint
  <1> QED
    BY <1>1, <1>2, AppendRecordInv, StartRunInv, ReadPageInv, ProposeCheckpointInv, SucceedRunInv,
      CommitWatermarkInv, LoseCommitInv DEF SourceNext, Progress

\* For any API, page size and configuration: no record at or before the
\* committed watermark was missed, and none is delivered twice while commits
\* follow success.
THEOREM WatermarkIsExact == SourceSpec => []SourceInvariant
  <1>1. SourceInv => SourceInvariant
    BY DEF SourceInv, SourceInvariant
  <1> QED
    BY <1>1, SourceInitInv, SourceNextInv, PTL DEF SourceSpec

-----------------------------------------------------------------------------
(* LocalStorage *)

Descriptors == [kind : Kinds, encrypted : BOOLEAN, key : Ciphers]
Outcomes == Operations \cup {Idle}
Working(w) == op[w].pc # "idle"
HeldBy(id) == \E w \in Workers : Working(w) /\ op[w].id = id

\* What reading with the descriptor's own key needs of a file.
Whole(file, d) ==
  /\ file # Absent /\ file.size = NBlocks
  /\ d.encrypted => d.key # NoKey /\ file.key = d.key /\ file.form \in {"token", "chunks"}

\* What a write relies on from one step to the next.
StagedRight(w) ==
  /\ staged[op[w].id].form = StagedForm(w, op[w].kind) /\ staged[op[w].id].key = cipher[w]
EncryptedRight(w) ==
  /\ Streams(w)
  /\ encrypted[op[w].id].form = "chunks" /\ encrypted[op[w].id].key = cipher[w]
AtWork(w) ==
  LET id == op[w].id IN
  Working(w) =>
    /\ id \in used
    /\ op[w].pc # "remove" => id \notin rows
    /\ op[w].pc = "remove" => id \notin rows \ orphaned
    /\ op[w].pc \in {"write", "encrypt", "publish"} =>
         ~ op[w].failed /\ final[id] = Absent /\ described[id] = {}
    /\ op[w].pc = "write" => StagedRight(w)
    /\ op[w].pc = "encrypt" => EncryptedRight(w)
    /\ op[w].pc = "publish" =>
         IF Streams(w) THEN EncryptedRight(w) /\ encrypted[id].size = NBlocks
         ELSE StagedRight(w) /\ staged[id].size = NBlocks
    /\ op[w].pc = "unlink" =>
         /\ described[id] = {}
         /\ op[w].failed => final[id] = Absent
         /\ (~ op[w].failed /\ id \notin cut) => Whole(final[id], Describe(w))
    /\ op[w].pc \in {"record", "remove"} => staged[id] = Absent /\ encrypted[id] = Absent
    /\ op[w].pc = "record" => (id \notin cut => final[id].size = NBlocks)

\* Identifiers are drawn once, so no two writes meet.
OwnIds == \A v, w \in Workers : (v # w /\ Working(v) /\ Working(w)) => op[v].id # op[w].id

\* What is left of an identifier: nothing before it is drawn, readable content
\* under a descriptor, no staging file after a write, and a file for a row.
IdOK(id) ==
  /\ id \notin used => /\ staged[id] = Absent /\ encrypted[id] = Absent /\ final[id] = Absent
                       /\ described[id] = {}
  /\ id \notin cut \cup rows => \A d \in described[id] : Whole(final[id], d)
  /\ (id \in used \ orphaned /\ ~ HeldBy(id)) => staged[id] = Absent /\ encrypted[id] = Absent
  /\ id \notin cut =>
       /\ id \in rows \ orphaned => final[id].size = NBlocks
       /\ (final[id] # Absent /\ described[id] = {}) => id \in rows \cup orphaned \/ HeldBy(id)

StorageInv ==
  /\ StorageTypeOK /\ described \in [Ids -> SUBSET Descriptors]
  /\ OwnIds /\ (\A w \in Workers : AtWork(w)) /\ \A id \in Ids : IdOK(id)

LEMMA StorageBounds ==
  /\ NBlocks \in Nat /\ NBlocks > 0 /\ NoKey \notin Keys /\ Absent \in Contents
  /\ MaxWriteFaults \in Nat /\ MaxCrashes \in Nat /\ MaxLostAnswers \in Nat
  BY StorageAssumption DEF Contents

\* A whole file is read back, and what reading yields depends on nothing else.
LEMMA WholeIsReadable ==
  ASSUME NEW id \in Ids, NEW d, d.encrypted \in BOOLEAN, Whole(final[id], d)
  PROVE  ReadTabular(id, d, d.key) = "data"
  <1>1. CASE d.encrypted
    <2>1. DecryptPayload(final[id], d.key) = NBlocks
      BY <1>1 DEF Whole, DecryptPayload
    <2> QED
      BY <1>1, <2>1 DEF Whole, ReadPayload, ReadTabular
  <1>2. CASE ~ d.encrypted
    BY <1>2 DEF Whole, ReadPayload, ReadTabular
  <1> QED
    BY <1>1, <1>2

LEMMA StorageInitInv == StorageInit => StorageInv
  <1> SUFFICES ASSUME StorageInit PROVE StorageInv
    OBVIOUS
  <1> USE StorageBounds DEF StorageInit
  <1>1. op \in [Workers -> Outcomes] /\ \A w \in Workers : ~ Working(w)
    BY DEF Outcomes, Working, Idle
  <1>2. {staged, encrypted, final} \subseteq [Ids -> Contents]
    OBVIOUS
  <1>3. described \in [Ids -> SUBSET Descriptors] /\ \A id \in Ids : described[id] = {}
    OBVIOUS
  <1>4. StorageTypeOK
    BY <1>1, <1>2, <1>3 DEF StorageTypeOK, Outcomes
  <1>5. OwnIds /\ \A w \in Workers : AtWork(w)
    BY <1>1 DEF OwnIds, AtWork
  <1>6. \A id \in Ids : IdOK(id)
    BY <1>3 DEF IdOK
  <1> QED
    BY <1>3, <1>4, <1>5, <1>6 DEF StorageInv

\* What a step of one process on one identifier leaves alone.
OwnStep(w, id) ==
  /\ op' \in [Workers -> Outcomes] /\ (\A v \in Workers : v # w => op'[v] = op[v])
  /\ IF Working(w) THEN op[w].id = id ELSE ~ HeldBy(id)
  /\ op'[w].pc # "idle" => op'[w].id = id
  /\ staged' \in [Ids -> Contents] /\ encrypted' \in [Ids -> Contents] /\ final' \in [Ids -> Contents]
  /\ described' \in [Ids -> SUBSET Descriptors]
  /\ \A i \in Ids : i # id => /\ staged'[i] = staged[i] /\ encrypted'[i] = encrypted[i]
                              /\ final'[i] = final[i] /\ described'[i] = described[i]
  /\ used' \in {used, used \cup {id}} /\ id \in used'
  /\ rows' \in {rows, rows \cup {id}} /\ orphaned' \in {orphaned, orphaned \cup {id}} /\ cut' = cut
  /\ cipher' \in [Workers -> Ciphers] /\ \A v \in Workers : v # w => cipher'[v] = cipher[v]
  /\ writeFaults' \in 0..MaxWriteFaults /\ crashes' \in 0..MaxCrashes /\ lostAnswers' \in 0..MaxLostAnswers
  /\ AtWork(w)' /\ IdOK(id)'

LEMMA OwnStepInv ==
  ASSUME StorageInv, NEW w \in Workers, NEW id \in Ids, OwnStep(w, id)
  PROVE  StorageInv'
  <1> USE DEF StorageInv
  <1>1. StorageTypeOK' /\ (described \in [Ids -> SUBSET Descriptors])'
    <2>1. {staged', encrypted', final'} \subseteq [Ids -> Contents]
      BY DEF OwnStep
    <2>2. rows' \subseteq used' /\ used' \subseteq Ids /\ orphaned' \subseteq used' /\ cut' \subseteq used'
      BY DEF OwnStep, StorageTypeOK
    <2>3. \A i \in Ids : described'[i] \subseteq Descriptors
      BY DEF OwnStep
    <2> QED
      BY <2>1, <2>2, <2>3 DEF OwnStep, StorageTypeOK, Outcomes, Descriptors
  <1>2. ASSUME NEW v \in Workers, v # w, Working(v) PROVE op[v].id # id /\ op'[v] = op[v]
    BY <1>2 DEF OwnStep, OwnIds, HeldBy
  <1>3. OwnIds'
    <2> SUFFICES ASSUME NEW u \in Workers, NEW v \in Workers, u # v, Working(u)', Working(v)'
                 PROVE  op'[u].id # op'[v].id
      BY DEF OwnIds
    <2> QED
      BY <1>2 DEF OwnStep, OwnIds, Working
  <1>4. ASSUME NEW v \in Workers PROVE AtWork(v)'
    <2>1. CASE v = w
      BY <2>1 DEF OwnStep
    <2>2. CASE v # w
      <3> SUFFICES ASSUME Working(v) PROVE AtWork(v)'
        BY <2>2 DEF OwnStep, AtWork, Working
      <3>1. op[v].id # id /\ op'[v] = op[v] /\ cipher'[v] = cipher[v] /\ op[v].id \in Ids /\ op[v].id \in used
        BY <1>2, <2>2 DEF OwnStep, AtWork, StorageTypeOK
      <3>2. PICK i \in Ids : i = op[v].id
        BY <3>1
      <3>3. /\ staged'[i] = staged[i] /\ encrypted'[i] = encrypted[i]
            /\ final'[i] = final[i] /\ described'[i] = described[i]
            /\ i \in used' /\ (i \in rows' <=> i \in rows) /\ (i \in orphaned' <=> i \in orphaned) /\ cut' = cut
        BY <3>1, <3>2 DEF OwnStep
      <3>4. AtWork(v)
        OBVIOUS
      <3> QED
        BY <3>1, <3>2, <3>3, <3>4 DEF AtWork, Working, StagedRight, EncryptedRight, Streams, StagedForm, Describe
    <2> QED
      BY <2>1, <2>2
  <1>5. ASSUME NEW i \in Ids PROVE IdOK(i)'
    <2>1. CASE i = id
      BY <2>1 DEF OwnStep
    <2>2. CASE i # id
      <3>1. HeldBy(i)' <=> HeldBy(i)
        BY <2>2 DEF HeldBy, Working, OwnStep
      <3>2. /\ staged'[i] = staged[i] /\ encrypted'[i] = encrypted[i]
            /\ final'[i] = final[i] /\ described'[i] = described[i] /\ (i \in used' <=> i \in used)
            /\ (i \in rows' <=> i \in rows) /\ (i \in orphaned' <=> i \in orphaned) /\ cut' = cut
        BY <2>2 DEF OwnStep
      <3> QED
        BY <3>1, <3>2 DEF IdOK
    <2> QED
      BY <2>1, <2>2
  <1> QED
    BY <1>1, <1>3, <1>4, <1>5

\* The operation a process works on, and the forms in which it changes.
LEMMA OpMoves ==
  ASSUME StorageInv, NEW w \in Workers, Working(w), NEW pc \in Busy
  PROVE  /\ op[w].id \in Ids /\ op[w].kind \in Kinds /\ op[w].pc \in Busy /\ op[w].failed \in BOOLEAN
         /\ op[w].id \in used /\ HeldBy(op[w].id)
         /\ Goto(w, pc) =>
              /\ op' \in [Workers -> Outcomes] /\ (\A v \in Workers : v # w => op'[v] = op[v])
              /\ op'[w].pc = pc /\ op'[w].id = op[w].id /\ op'[w].kind = op[w].kind /\ op'[w].failed = op[w].failed
         /\ op' = [op EXCEPT ![w].pc = pc, ![w].failed = TRUE] =>
              /\ op' \in [Workers -> Outcomes] /\ (\A v \in Workers : v # w => op'[v] = op[v])
              /\ op'[w].pc = pc /\ op'[w].id = op[w].id /\ op'[w].kind = op[w].kind /\ op'[w].failed = TRUE
         /\ op' = [op EXCEPT ![w] = Idle] =>
              /\ op' \in [Workers -> Outcomes] /\ (\A v \in Workers : v # w => op'[v] = op[v])
              /\ op'[w].pc = "idle"
  <1>1. op \in [Workers -> Outcomes]
    BY DEF StorageInv, StorageTypeOK, Outcomes
  <1>2. PICK r \in Operations : r = op[w]
    BY <1>1 DEF Outcomes, Working, Idle
  <1>3. /\ [r EXCEPT !.pc = pc] \in Outcomes /\ [r EXCEPT !.pc = pc, !.failed = TRUE] \in Outcomes
        /\ Idle \in Outcomes
    BY <1>2 DEF Operations, Outcomes
  <1>4. r.id \in Ids /\ r.kind \in Kinds /\ r.pc \in Busy /\ r.failed \in BOOLEAN
    BY <1>2 DEF Operations
  <1>5. op[w].id \in used /\ HeldBy(op[w].id)
    BY DEF StorageInv, AtWork, HeldBy
  <1>6. ASSUME Goto(w, pc)
        PROVE  /\ op' \in [Workers -> Outcomes] /\ (\A v \in Workers : v # w => op'[v] = op[v])
               /\ op'[w].pc = pc /\ op'[w].id = r.id /\ op'[w].kind = r.kind /\ op'[w].failed = r.failed
    <2>1. op' = [op EXCEPT ![w] = [r EXCEPT !.pc = pc]]
      BY <1>1, <1>2, <1>6 DEF Goto
    <2> QED
      BY <1>1, <1>2, <1>3, <2>1 DEF Operations
  <1>7. ASSUME op' = [op EXCEPT ![w].pc = pc, ![w].failed = TRUE]
        PROVE  /\ op' \in [Workers -> Outcomes] /\ (\A v \in Workers : v # w => op'[v] = op[v])
               /\ op'[w].pc = pc /\ op'[w].id = r.id /\ op'[w].kind = r.kind /\ op'[w].failed = TRUE
    <2>1. op' = [op EXCEPT ![w] = [r EXCEPT !.pc = pc, !.failed = TRUE]]
      BY <1>1, <1>2, <1>7
    <2> QED
      BY <1>1, <1>2, <1>3, <2>1 DEF Operations
  <1>8. ASSUME op' = [op EXCEPT ![w] = Idle]
        PROVE  /\ op' \in [Workers -> Outcomes] /\ (\A v \in Workers : v # w => op'[v] = op[v])
               /\ op'[w].pc = "idle"
    BY <1>1, <1>3, <1>8 DEF Idle
  <1> QED
    BY <1>2, <1>4, <1>5, <1>6, <1>7, <1>8

LEMMA StorageTyped ==
  ASSUME StorageInv
  PROVE  /\ op \in [Workers -> Outcomes] /\ cipher \in [Workers -> Ciphers]
         /\ staged \in [Ids -> Contents] /\ encrypted \in [Ids -> Contents] /\ final \in [Ids -> Contents]
         /\ described \in [Ids -> SUBSET Descriptors] /\ used \subseteq Ids
         /\ writeFaults \in 0..MaxWriteFaults /\ crashes \in 0..MaxCrashes /\ lostAnswers \in 0..MaxLostAnswers
  BY DEF StorageInv, StorageTypeOK, Outcomes

\* The parts of OwnStep that a step of Step(w) has in common.
LEMMA WorkStep ==
  ASSUME StorageInv, NEW w \in Workers, Working(w), NEW id, id = op[w].id,
         op' \in [Workers -> Outcomes], \A v \in Workers : v # w => op'[v] = op[v],
         op'[w].pc # "idle" => op'[w].id = id,
         staged' \in [Ids -> Contents], encrypted' \in [Ids -> Contents], final' \in [Ids -> Contents],
         described' \in [Ids -> SUBSET Descriptors],
         \A i \in Ids : i # id => /\ staged'[i] = staged[i] /\ encrypted'[i] = encrypted[i]
                                  /\ final'[i] = final[i] /\ described'[i] = described[i],
         rows' \in {rows, rows \cup {id}}, orphaned' \in {orphaned, orphaned \cup {id}},
         UNCHANGED <<cut, used>>,
         cipher' \in [Workers -> Ciphers], \A v \in Workers : v # w => cipher'[v] = cipher[v],
         writeFaults' \in 0..MaxWriteFaults, crashes' \in 0..MaxCrashes, lostAnswers' \in 0..MaxLostAnswers,
         AtWork(w)', IdOK(id)'
  PROVE  StorageInv'
  <1>1. id \in Ids /\ id \in used
    BY OpMoves DEF Busy
  <1>2. OwnStep(w, id)
    BY <1>1 DEF OwnStep
  <1> QED
    BY <1>1, <1>2, OwnStepInv

\* While a process works on an identifier, its staging files are its own affair.
LEMMA HeldIdOK ==
  ASSUME NEW w \in Workers, NEW id, (op[w].pc # "idle")', (op[w].id = id)',
         (id \in used)',
         (id \notin cut \cup rows => \A d \in described[id] : Whole(final[id], d))',
         (id \notin cut => id \notin rows \ orphaned)'
  PROVE  IdOK(id)'
  <1>1. HeldBy(id)'
    BY DEF HeldBy, Working
  <1> QED
    BY <1>1 DEF IdOK

\* A file that keeps its form and key keeps what its writer relies on.
LEMMA BlockInv == ASSUME StorageInv, NEW w \in Workers, WriteBlock(w) PROVE StorageInv'
  <1> USE StorageBounds, StorageTyped
  <1>1. Working(w)
    BY DEF WriteBlock, At, Working
  <1>2. PICK id \in Ids : id = op[w].id /\ id \in used
    BY <1>1, OpMoves DEF Busy
  <1>3. /\ UNCHANGED <<cipher, op, encrypted, final, described, rows, used, orphaned, cut>>
        /\ UNCHANGED <<writeFaults, crashes, lostAnswers>>
    BY DEF WriteBlock, bounds
  <1>4. /\ op[w].pc = "write" /\ staged[id].size < NBlocks
        /\ staged' = [staged EXCEPT ![id].size = @ + 1]
    BY <1>2 DEF WriteBlock, At, BlocksLeft
  <1>5. ~ op[w].failed /\ final[id] = Absent /\ described[id] = {} /\ id \notin rows /\ StagedRight(w)
    BY <1>1, <1>2, <1>4 DEF StorageInv, AtWork
  <1>6. PICK file \in Contents : file = staged[id] /\ file # Absent
    BY <1>2, <1>5 DEF StagedRight, StagedForm, Absent
  <1>7. [file EXCEPT !.size = file.size + 1] \in Contents
    BY <1>4, <1>6 DEF Contents
  <1>8. staged' = [staged EXCEPT ![id] = [file EXCEPT !.size = file.size + 1]]
    BY <1>4, <1>6
  <1>9. /\ staged' \in [Ids -> Contents] /\ staged'[id].form = file.form /\ staged'[id].key = file.key
        /\ \A i \in Ids : i # id => staged'[i] = staged[i]
    BY <1>6, <1>7, <1>8 DEF Contents
  <1>10. AtWork(w)'
    BY <1>1, <1>2, <1>3, <1>4, <1>5, <1>6, <1>9 DEF AtWork, Working, StagedRight, StagedForm
  <1>11. IdOK(id)'
    BY <1>2, <1>3, <1>4, <1>5, HeldIdOK
  <1> QED
    BY <1>1, <1>2, <1>3, <1>9, <1>10, <1>11, WorkStep

LEMMA EndWriteInv == ASSUME StorageInv, NEW w \in Workers, EndWrite(w) PROVE StorageInv'
  <1> USE StorageBounds, StorageTyped
  <1>1. Working(w)
    BY DEF EndWrite, At, Working
  <1>2. PICK id \in Ids : id = op[w].id /\ id \in used
    BY <1>1, OpMoves DEF Busy
  <1>3. /\ UNCHANGED <<cipher, staged, final, described, rows, used, orphaned, cut>>
        /\ UNCHANGED <<writeFaults, crashes, lostAnswers>>
    BY DEF EndWrite, bounds
  <1>4. op[w].pc = "write" /\ ~ (staged[id].size < NBlocks)
    BY <1>2 DEF EndWrite, At, BlocksLeft
  <1>5. ~ op[w].failed /\ final[id] = Absent /\ described[id] = {} /\ id \notin rows /\ StagedRight(w)
    BY <1>1, <1>2, <1>4 DEF StorageInv, AtWork
  <1>6. staged[id].size = NBlocks
    <2>1. PICK file \in Contents : file = staged[id]
      BY <1>2
    <2>2. file.size \in 0..NBlocks
      BY <2>1 DEF Contents, Absent
    <2> QED
      BY <1>4, <2>1, <2>2
  <1>7. /\ op' \in [Workers -> Outcomes] /\ (\A v \in Workers : v # w => op'[v] = op[v])
        /\ op'[w].pc = (IF Streams(w) THEN "encrypt" ELSE "publish")
        /\ op'[w].id = id /\ op'[w].kind = op[w].kind /\ op'[w].failed = op[w].failed
    BY <1>1, <1>2, OpMoves DEF EndWrite, Busy
  <1>8. [form |-> "chunks", size |-> 0, key |-> cipher[w]] \in Contents
    BY DEF Contents
  <1>9. /\ encrypted' \in [Ids -> Contents] /\ (\A i \in Ids : i # id => encrypted'[i] = encrypted[i])
        /\ Streams(w) => encrypted'[id].form = "chunks" /\ encrypted'[id].key = cipher[w]
    BY <1>2, <1>8 DEF EndWrite
  <1>10. AtWork(w)'
    BY <1>2, <1>3, <1>5, <1>6, <1>7, <1>9 DEF AtWork, Working, StagedRight, EncryptedRight, StagedForm, Streams
  <1>11. IdOK(id)'
    BY <1>2, <1>3, <1>5, <1>7, HeldIdOK
  <1> QED
    BY <1>1, <1>2, <1>3, <1>7, <1>9, <1>10, <1>11, WorkStep

LEMMA EncryptInv == ASSUME StorageInv, NEW w \in Workers, EncryptFile(w) PROVE StorageInv'
  <1> USE StorageBounds, StorageTyped
  <1>1. Working(w)
    BY DEF EncryptFile, At, Working
  <1>2. PICK id \in Ids : id = op[w].id /\ id \in used
    BY <1>1, OpMoves DEF Busy
  <1>3. /\ UNCHANGED <<cipher, staged, final, described, rows, used, orphaned, cut>>
        /\ UNCHANGED <<writeFaults, crashes, lostAnswers>> /\ op[w].pc = "encrypt"
    BY DEF EncryptFile, bounds, At
  <1>4. ~ op[w].failed /\ final[id] = Absent /\ described[id] = {} /\ id \notin rows /\ EncryptedRight(w)
    BY <1>1, <1>2, <1>3 DEF StorageInv, AtWork
  <1>5. CASE encrypted[id].size < NBlocks /\ encrypted' = [encrypted EXCEPT ![id].size = @ + 1] /\ UNCHANGED op
    <2>1. PICK file \in Contents : file = encrypted[id] /\ file # Absent
      BY <1>2, <1>4 DEF EncryptedRight, Absent
    <2>2. [file EXCEPT !.size = file.size + 1] \in Contents
      BY <1>5, <2>1 DEF Contents
    <2>3. encrypted' = [encrypted EXCEPT ![id] = [file EXCEPT !.size = file.size + 1]]
      BY <1>5, <2>1
    <2>4. /\ encrypted' \in [Ids -> Contents] /\ encrypted'[id].form = file.form /\ encrypted'[id].key = file.key
          /\ \A i \in Ids : i # id => encrypted'[i] = encrypted[i]
      BY <2>1, <2>2, <2>3 DEF Contents
    <2>5. AtWork(w)'
      BY <1>1, <1>2, <1>3, <1>4, <1>5, <2>1, <2>4 DEF AtWork, Working, EncryptedRight, Streams
    <2>6. IdOK(id)'
      BY <1>2, <1>3, <1>4, <1>5, HeldIdOK
    <2> QED
      BY <1>1, <1>2, <1>3, <1>5, <2>4, <2>5, <2>6, WorkStep
  <1>6. CASE AllEncrypted(id) /\ Goto(w, "publish") /\ UNCHANGED encrypted
    <2>1. /\ op' \in [Workers -> Outcomes] /\ (\A v \in Workers : v # w => op'[v] = op[v])
          /\ op'[w].pc = "publish" /\ op'[w].id = id /\ op'[w].kind = op[w].kind
          /\ op'[w].failed = op[w].failed
      BY <1>1, <1>2, <1>6, OpMoves DEF Busy
    <2>2. AtWork(w)'
      BY <1>2, <1>3, <1>4, <1>6, <2>1 DEF AtWork, Working, EncryptedRight, Streams, AllEncrypted
    <2>3. IdOK(id)'
      BY <1>2, <1>3, <1>4, <2>1, HeldIdOK
    <2> QED
      BY <1>1, <1>2, <1>3, <1>6, <2>1, <2>2, <2>3, WorkStep
  <1> QED
    BY <1>2, <1>5, <1>6 DEF EncryptFile

\* What is published is what was staged, in the form its descriptor will name.
LEMMA PublishInv == ASSUME StorageInv, NEW w \in Workers, Publish(w) PROVE StorageInv'
  <1> USE StorageBounds, StorageTyped
  <1>1. Working(w)
    BY DEF Publish, At, Working
  <1>2. PICK id \in Ids : id = op[w].id /\ id \in used
    BY <1>1, OpMoves DEF Busy
  <1>3. /\ UNCHANGED <<cipher, described, rows, used, orphaned, cut>>
        /\ UNCHANGED <<writeFaults, crashes, lostAnswers>> /\ op[w].pc = "publish"
    BY DEF Publish, bounds, At
  <1>4. /\ described[id] = {} /\ id \notin rows
        /\ IF Streams(w) THEN EncryptedRight(w) /\ encrypted[id].size = NBlocks
           ELSE StagedRight(w) /\ staged[id].size = NBlocks
    BY <1>1, <1>2, <1>3 DEF StorageInv, AtWork
  <1>5. /\ op' \in [Workers -> Outcomes] /\ (\A v \in Workers : v # w => op'[v] = op[v])
        /\ op'[w].pc = "unlink" /\ op'[w].id = id /\ op'[w].kind = op[w].kind
    BY <1>1, <1>2, OpMoves DEF Publish, Busy
  <1>6. /\ staged' \in [Ids -> Contents] /\ (\A i \in Ids : i # id => staged'[i] = staged[i])
        /\ encrypted' \in [Ids -> Contents] /\ (\A i \in Ids : i # id => encrypted'[i] = encrypted[i])
        /\ final' \in [Ids -> Contents] /\ (\A i \in Ids : i # id => final'[i] = final[i])
        /\ final'[id] = IF Streams(w) THEN encrypted[id] ELSE staged[id]
    BY <1>2 DEF Publish
  <1>7. cipher[w] \in Ciphers /\ op[w].kind \in Kinds
    BY <1>1, OpMoves DEF Busy
  <1>8. Whole(final'[id], Describe(w)')
    <2>1. /\ Describe(w)'.encrypted = (op[w].kind # "artifact" /\ cipher[w] # NoKey)
          /\ Describe(w)'.key = cipher[w]
      BY <1>3, <1>5 DEF Describe
    <2>2. final'[id].size = NBlocks /\ final'[id] # Absent
      BY <1>4, <1>6 DEF Absent
    <2>3. final'[id].key = cipher[w]
      BY <1>2, <1>4, <1>6 DEF StagedRight, EncryptedRight
    <2>4. (op[w].kind # "artifact" /\ cipher[w] # NoKey) => final'[id].form \in {"token", "chunks"}
      BY <1>2, <1>4, <1>6, <1>7 DEF StagedRight, EncryptedRight, StagedForm, Streams, Kinds
    <2> QED
      BY <2>1, <2>2, <2>3, <2>4 DEF Whole
  <1>9. op'[w].failed = op[w].failed /\ op[w].failed \in BOOLEAN
    BY <1>1, OpMoves DEF Publish, Busy
  <1>10. ~ op[w].failed
    BY <1>1, <1>3 DEF StorageInv, AtWork
  <1>11. AtWork(w)'
    BY <1>2, <1>3, <1>4, <1>5, <1>8, <1>9, <1>10 DEF AtWork, Working
  <1>12. IdOK(id)'
    BY <1>2, <1>3, <1>4, <1>5, HeldIdOK
  <1> QED
    BY <1>1, <1>2, <1>3, <1>5, <1>6, <1>11, <1>12, WorkStep

LEMMA FailWriteInv == ASSUME StorageInv, NEW w \in Workers, FailWrite(w) PROVE StorageInv'
  <1> USE StorageBounds, StorageTyped
  <1>1. Working(w)
    BY DEF FailWrite, Working
  <1>2. PICK id \in Ids : id = op[w].id /\ id \in used
    BY <1>1, OpMoves DEF Busy
  <1>3. /\ UNCHANGED <<cipher, staged, encrypted, final, described, rows, used, orphaned, cut>>
        /\ writeFaults' \in 0..MaxWriteFaults /\ UNCHANGED <<crashes, lostAnswers>>
    BY DEF FailWrite, Raise, files
  <1>4. final[id] = Absent /\ described[id] = {} /\ id \notin rows
    BY <1>1, <1>2 DEF StorageInv, AtWork, FailWrite
  <1>5. /\ op' \in [Workers -> Outcomes] /\ (\A v \in Workers : v # w => op'[v] = op[v])
        /\ op'[w].pc = "unlink" /\ op'[w].id = id /\ op'[w].failed = TRUE
    BY <1>1, <1>2, OpMoves DEF FailWrite, Busy
  <1>6. AtWork(w)'
    BY <1>2, <1>3, <1>4, <1>5 DEF AtWork, Working
  <1>7. IdOK(id)'
    BY <1>2, <1>3, <1>4, <1>5, HeldIdOK
  <1> QED
    BY <1>1, <1>2, <1>3, <1>5, <1>6, <1>7, WorkStep

\* The finally clause leaves no staging file, and what it describes is whole.
LEMMA UnlinkInv == ASSUME StorageInv, NEW w \in Workers, Unlink(w) PROVE StorageInv'
  <1> USE StorageBounds, StorageTyped
  <1>1. Working(w)
    BY DEF Unlink, At, Working
  <1>2. PICK id \in Ids : id = op[w].id /\ id \in used
    BY <1>1, OpMoves DEF Busy
  <1>3. /\ UNCHANGED <<cipher, final, rows, used, orphaned, cut>>
        /\ UNCHANGED <<writeFaults, crashes, lostAnswers>> /\ op[w].pc = "unlink"
    BY DEF Unlink, bounds, At
  <1>4. /\ described[id] = {} /\ id \notin rows /\ op[w].failed \in BOOLEAN
        /\ op[w].failed => final[id] = Absent
        /\ (~ op[w].failed /\ id \notin cut) => Whole(final[id], Describe(w))
    BY <1>1, <1>2, <1>3, OpMoves DEF StorageInv, AtWork, Busy
  <1>5. /\ staged' \in [Ids -> Contents] /\ staged'[id] = Absent /\ (\A i \in Ids : i # id => staged'[i] = staged[i])
        /\ encrypted' \in [Ids -> Contents] /\ encrypted'[id] = Absent
        /\ \A i \in Ids : i # id => encrypted'[i] = encrypted[i]
    BY <1>2 DEF Unlink, UnlinkStaged
  <1>6. Describe(w) \in Descriptors
    BY <1>1, OpMoves DEF Describe, Descriptors, Busy
  <1>7. /\ described' \in [Ids -> SUBSET Descriptors] /\ (\A i \in Ids : i # id => described'[i] = described[i])
        /\ described'[id] = IF op[w].failed THEN {} ELSE {Describe(w)}
    BY <1>2, <1>4, <1>6 DEF Unlink
  <1>8. \A d \in described'[id] : id \notin cut => Whole(final[id], d)
    BY <1>4, <1>7
  <1>9. CASE op[w].failed \/ op[w].kind # "artifact"
    <2>1. /\ op' \in [Workers -> Outcomes] /\ (\A v \in Workers : v # w => op'[v] = op[v])
          /\ op'[w].pc = "idle"
      BY <1>1, <1>9, OpMoves DEF Unlink, Busy
    <2>2. AtWork(w)'
      BY <2>1 DEF AtWork, Working
    <2>3. final[id] # Absent => described'[id] # {}
      BY <1>4, <1>7
    <2>4. IdOK(id)'
      BY <1>2, <1>3, <1>4, <1>5, <1>8, <2>3 DEF IdOK
    <2> QED
      BY <1>1, <1>2, <1>3, <1>5, <1>7, <2>1, <2>2, <2>4, WorkStep
  <1>10. CASE ~ (op[w].failed \/ op[w].kind # "artifact")
    <2>1. /\ op' \in [Workers -> Outcomes] /\ (\A v \in Workers : v # w => op'[v] = op[v])
          /\ op'[w].pc = "record" /\ op'[w].id = id
      BY <1>1, <1>2, <1>10, OpMoves DEF Unlink, Busy
    <2>2. id \notin cut => final[id].size = NBlocks
      BY <1>4, <1>10 DEF Whole
    <2>3. AtWork(w)'
      BY <1>2, <1>3, <1>4, <1>5, <2>1, <2>2 DEF AtWork, Working
    <2>4. IdOK(id)'
      BY <1>2, <1>3, <1>4, <1>8, <2>1, HeldIdOK
    <2> QED
      BY <1>1, <1>2, <1>3, <1>5, <1>7, <2>1, <2>3, <2>4, WorkStep
  <1> QED
    BY <1>9, <1>10

\* What a finally clause could not remove is orphaned.
LEMMA UnlinkFailsInv == ASSUME StorageInv, NEW w \in Workers, UnlinkFails(w) PROVE StorageInv'
  <1> USE StorageBounds, StorageTyped
  <1>1. Working(w) /\ op[w].pc = "unlink"
    BY DEF UnlinkFails, At, Working
  <1>2. PICK id \in Ids : id = op[w].id /\ id \in used
    BY <1>1, OpMoves DEF Busy
  <1>3. /\ UNCHANGED <<cipher, encrypted, final, described, rows, used, cut, crashes, lostAnswers>>
        /\ writeFaults' \in 0..MaxWriteFaults /\ orphaned' = orphaned \cup {id}
    BY <1>2 DEF UnlinkFails, Raise
  <1>4. described[id] = {} /\ id \notin rows
    BY <1>1, <1>2 DEF StorageInv, AtWork
  <1>5. /\ op' \in [Workers -> Outcomes] /\ (\A v \in Workers : v # w => op'[v] = op[v])
        /\ op'[w].pc = "idle"
    BY <1>1, OpMoves DEF UnlinkFails, Busy
  <1>6. staged' \in [Ids -> Contents] /\ \A i \in Ids : i # id => staged'[i] = staged[i]
    BY <1>2 DEF UnlinkFails, UnlinkStaged
  <1>7. AtWork(w)'
    BY <1>5 DEF AtWork, Working
  <1>8. IdOK(id)'
    BY <1>2, <1>3, <1>4 DEF IdOK
  <1> QED
    BY <1>1, <1>2, <1>3, <1>5, <1>6, <1>7, <1>8, WorkStep

\* A row is written for a whole file; a failed insert leads to the removal of
\* the file, unless the insert went through without an answer.
LEMMA RecordInv ==
  ASSUME StorageInv, NEW w \in Workers, Record(w) \/ RecordFails(w)
  PROVE  StorageInv'
  <1> USE StorageBounds, StorageTyped
  <1>1. Working(w) /\ op[w].pc = "record"
    BY DEF Record, RecordFails, At, Working
  <1>2. PICK id \in Ids : id = op[w].id /\ id \in used
    BY <1>1, OpMoves DEF Busy
  <1>3. /\ UNCHANGED <<cipher, staged, encrypted, final, described, used, cut>>
        /\ writeFaults' \in 0..MaxWriteFaults /\ lostAnswers' \in 0..MaxLostAnswers /\ UNCHANGED crashes
    BY DEF Record, RecordFails, Raise, files, bounds
  <1>4. /\ id \notin rows /\ staged[id] = Absent /\ encrypted[id] = Absent
        /\ id \notin cut => final[id].size = NBlocks
    BY <1>1, <1>2 DEF StorageInv, AtWork
  <1>5. CASE Record(w)
    <2>1. /\ op' \in [Workers -> Outcomes] /\ (\A v \in Workers : v # w => op'[v] = op[v])
          /\ op'[w].pc = "idle" /\ rows' = rows \cup {id} /\ orphaned' = orphaned
      BY <1>1, <1>2, <1>5, OpMoves DEF Record, Busy
    <2>2. AtWork(w)'
      BY <2>1 DEF AtWork, Working
    <2>3. IdOK(id)'
      BY <1>2, <1>3, <1>4, <2>1 DEF IdOK
    <2> QED
      BY <1>1, <1>2, <1>3, <2>1, <2>2, <2>3, WorkStep
  <1>6. CASE RecordFails(w)
    <2>1. /\ op' \in [Workers -> Outcomes] /\ (\A v \in Workers : v # w => op'[v] = op[v])
          /\ op'[w].pc = "remove" /\ op'[w].id = id
      BY <1>1, <1>2, <1>6, OpMoves DEF RecordFails, Busy
    <2>2. \/ rows' = rows /\ orphaned' = orphaned
          \/ rows' = rows \cup {id} /\ orphaned' = orphaned \cup {id}
      BY <1>2, <1>6 DEF RecordFails
    <2>3. AtWork(w)'
      BY <1>2, <1>3, <1>4, <2>1, <2>2 DEF AtWork, Working
    <2>4. id \notin cut \cup rows => \A d \in described[id] : Whole(final[id], d)
      BY DEF StorageInv, IdOK
    <2>5. IdOK(id)'
      BY <1>2, <1>3, <1>4, <2>1, <2>2, <2>4, HeldIdOK
    <2> QED
      BY <1>1, <1>2, <1>3, <2>1, <2>2, <2>3, <2>5, WorkStep
  <1> QED
    BY <1>5, <1>6

LEMMA RemoveInv == ASSUME StorageInv, NEW w \in Workers, DeleteUnrecorded(w) PROVE StorageInv'
  <1> USE StorageBounds, StorageTyped
  <1>1. Working(w) /\ op[w].pc = "remove"
    BY DEF DeleteUnrecorded, At, Working
  <1>2. PICK id \in Ids : id = op[w].id /\ id \in used
    BY <1>1, OpMoves DEF Busy
  <1>3. /\ UNCHANGED <<cipher, staged, encrypted, rows, used, cut, crashes, lostAnswers>>
        /\ writeFaults' \in 0..MaxWriteFaults
    BY DEF DeleteUnrecorded, Raise, bounds
  <1>4. staged[id] = Absent /\ encrypted[id] = Absent /\ id \notin rows \ orphaned
    BY <1>1, <1>2 DEF StorageInv, AtWork
  <1>5. /\ op' \in [Workers -> Outcomes] /\ (\A v \in Workers : v # w => op'[v] = op[v])
        /\ op'[w].pc = "idle"
    BY <1>1, OpMoves DEF DeleteUnrecorded, Busy
  <1>6. /\ described' \in [Ids -> SUBSET Descriptors] /\ described'[id] = {}
        /\ (\A i \in Ids : i # id => described'[i] = described[i])
    BY <1>2 DEF DeleteUnrecorded
  <1>7. /\ final' \in [Ids -> Contents] /\ (\A i \in Ids : i # id => final'[i] = final[i])
        /\ \/ final'[id] = Absent /\ orphaned' = orphaned
           \/ orphaned' = orphaned \cup {id}
    BY <1>2 DEF DeleteUnrecorded, RemoveFile
  <1>8. AtWork(w)'
    BY <1>5 DEF AtWork, Working
  <1>9. IdOK(id)'
    BY <1>2, <1>3, <1>4, <1>6, <1>7 DEF IdOK
  <1> QED
    BY <1>1, <1>2, <1>3, <1>5, <1>6, <1>7, <1>8, <1>9, WorkStep

\* A new write draws an identifier that has nothing yet.
LEMMA BeginInv ==
  ASSUME StorageInv, NEW w \in Workers, NEW id \in Ids, NEW kind \in Kinds, Begin(w, id, kind)
  PROVE  StorageInv'
  <1> USE StorageBounds, StorageTyped
  <1>1. ~ Working(w) /\ id \notin used
    BY DEF Begin, At, Working
  <1>2. /\ UNCHANGED <<cipher, encrypted, final, described, rows, orphaned, cut>>
        /\ UNCHANGED <<writeFaults, crashes, lostAnswers>> /\ used' = used \cup {id}
    BY DEF Begin, bounds
  <1>3. id \notin rows /\ id \notin cut /\ final[id] = Absent /\ described[id] = {}
    BY <1>1 DEF StorageInv, StorageTypeOK, IdOK
  <1>4. ~ HeldBy(id)
    BY <1>1 DEF StorageInv, AtWork, HeldBy
  <1>5. [pc |-> "write", failed |-> FALSE, id |-> id, kind |-> kind] \in Outcomes
    BY DEF Outcomes, Operations, Busy
  <1>6. /\ op' \in [Workers -> Outcomes] /\ (\A v \in Workers : v # w => op'[v] = op[v])
        /\ op'[w].pc = "write" /\ op'[w].id = id /\ op'[w].kind = kind /\ op'[w].failed = FALSE
    BY <1>5 DEF Begin
  <1>7. [form |-> StagedForm(w, kind), size |-> 0, key |-> cipher[w]] \in Contents
    BY DEF StagedForm, Contents
  <1>8. /\ staged' \in [Ids -> Contents] /\ (\A i \in Ids : i # id => staged'[i] = staged[i])
        /\ staged'[id].form = StagedForm(w, kind) /\ staged'[id].key = cipher[w]
    BY <1>7 DEF Begin
  <1>9. AtWork(w)'
    BY <1>2, <1>3, <1>6, <1>8 DEF AtWork, Working, StagedRight, StagedForm
  <1>10. IdOK(id)'
    BY <1>2, <1>3, <1>6, HeldIdOK
  <1>11. OwnStep(w, id)
    BY <1>1, <1>2, <1>4, <1>6, <1>8, <1>9, <1>10 DEF OwnStep
  <1> QED
    BY <1>11, OwnStepInv

\* A process that dies leaves what it worked on behind, as orphaned.
LEMMA CrashInv == ASSUME StorageInv, NEW w \in Workers, Crash(w) PROVE StorageInv'
  <1> USE StorageBounds, StorageTyped
  <1>1. /\ UNCHANGED <<staged, encrypted, final, described, rows, used, cut, writeFaults, lostAnswers>>
        /\ crashes' \in 0..MaxCrashes
        /\ op' = [op EXCEPT ![w] = Idle]
        /\ cipher' \in [Workers -> Ciphers] /\ \A v \in Workers : v # w => cipher'[v] = cipher[v]
    BY DEF Crash, files
  <1>2. CASE Working(w)
    <2>1. PICK id \in Ids : id = op[w].id /\ id \in used
      BY <1>2, OpMoves DEF Busy
    <2>2. orphaned' = orphaned \cup {id}
      BY <1>2, <2>1 DEF Crash, Working, Idle
    <2>3. /\ op' \in [Workers -> Outcomes] /\ (\A v \in Workers : v # w => op'[v] = op[v])
          /\ op'[w].pc = "idle"
      BY <1>1, <1>2, OpMoves DEF Busy
    <2>4. AtWork(w)'
      BY <2>3 DEF AtWork, Working
    <2>5. IdOK(id)
      BY DEF StorageInv
    <2>6. IdOK(id)'
      BY <1>1, <2>1, <2>2, <2>5 DEF IdOK
    <2> QED
      BY <1>1, <1>2, <2>1, <2>2, <2>3, <2>4, <2>6, WorkStep
  <1>3. CASE ~ Working(w)
    <2>1. op[w] = Idle
      BY <1>3 DEF Working, Outcomes, Operations, Busy
    <2>2. op' = op /\ orphaned' = orphaned
      BY <1>1, <2>1 DEF Crash
    <2>3. StorageTypeOK'
      BY <1>1, <2>2 DEF StorageInv, StorageTypeOK
    <2>4. OwnIds' /\ \A id \in Ids : IdOK(id)'
      BY <1>1, <2>2 DEF StorageInv, OwnIds, IdOK, HeldBy, Working
    <2>5. ASSUME NEW v \in Workers PROVE AtWork(v)'
      <3>1. CASE v = w
        BY <1>3, <2>2, <3>1 DEF AtWork, Working
      <3>2. CASE v # w
        <4>1. AtWork(v) /\ cipher'[v] = cipher[v]
          BY <1>1, <3>2 DEF StorageInv
        <4> QED
          BY <1>1, <2>2, <4>1 DEF AtWork, Working, StagedRight, EncryptedRight, Streams, StagedForm, Describe
      <3> QED
        BY <3>1, <3>2
    <2> QED
      BY <1>1, <2>3, <2>4, <2>5 DEF StorageInv
  <1> QED
    BY <1>2, <1>3

\* Deletion takes a described file that nobody works on and no row names.
LEMMA DeleteDatasetInv == ASSUME StorageInv, NEW id \in Ids, DeleteDataset(id) PROVE StorageInv'
  <1> USE StorageBounds, StorageTyped
  <1>1. /\ UNCHANGED <<cipher, op, staged, encrypted, rows, used, orphaned, cut>>
        /\ UNCHANGED <<writeFaults, crashes, lostAnswers>>
    BY DEF DeleteDataset, bounds
  <1>2. id \notin rows /\ ~ HeldBy(id) /\ described[id] # {}
    BY DEF DeleteDataset, Held, HeldBy, Working
  <1>3. /\ final' \in [Ids -> Contents] /\ final'[id] = Absent /\ (\A i \in Ids : i # id => final'[i] = final[i])
        /\ described' \in [Ids -> SUBSET Descriptors] /\ described'[id] = {}
        /\ \A i \in Ids : i # id => described'[i] = described[i]
    BY DEF DeleteDataset
  <1>4. StorageTypeOK'
    <2>1. {staged', encrypted', final'} \subseteq [Ids -> Contents]
      BY <1>1, <1>3
    <2>2. \A i \in Ids : described'[i] \subseteq Descriptors
      BY <1>3
    <2> QED
      BY <1>1, <2>1, <2>2 DEF StorageInv, StorageTypeOK, Descriptors
  <1>5. OwnIds'
    BY <1>1 DEF StorageInv, OwnIds, Working
  <1>6. ASSUME NEW w \in Workers PROVE AtWork(w)'
    <2> SUFFICES ASSUME Working(w) PROVE AtWork(w)'
      BY <1>1 DEF AtWork, Working
    <2>1. op[w].id # id /\ op[w].id \in Ids /\ AtWork(w)
      BY <1>2, OpMoves DEF HeldBy, Busy, StorageInv
    <2> QED
      BY <1>1, <1>3, <2>1 DEF AtWork, Working, StagedRight, EncryptedRight, Streams, StagedForm, Describe
  <1>7. ASSUME NEW i \in Ids PROVE IdOK(i)'
    <2>1. IdOK(i) /\ (HeldBy(i)' <=> HeldBy(i))
      BY <1>1 DEF StorageInv, HeldBy, Working
    <2> QED
      BY <1>1, <1>2, <1>3, <2>1 DEF IdOK
  <1> QED
    BY <1>3, <1>4, <1>5, <1>6, <1>7 DEF StorageInv

\* A file that loses its tail is known as cut.
LEMMA LoseTailInv == ASSUME StorageInv, NEW id \in Ids, LoseTail(id) PROVE StorageInv'
  <1> USE StorageBounds, StorageTyped
  <1>1. /\ UNCHANGED <<cipher, op, staged, encrypted, described, rows, used, orphaned>>
        /\ UNCHANGED <<writeFaults, crashes, lostAnswers>> /\ cut' = cut \cup {id}
    BY DEF LoseTail, bounds
  <1>2. PICK file \in Contents : file = final[id] /\ file.size > 0
    BY DEF LoseTail
  <1>3. file # Absent /\ file.size \in 0..NBlocks
    BY <1>2 DEF Contents, Absent
  <1>4. PICK size \in 0..file.size - 1 : final' = [final EXCEPT ![id].size = size]
    BY <1>2 DEF LoseTail
  <1>5. [file EXCEPT !.size = size] \in Contents
    BY <1>2, <1>3, <1>4 DEF Contents
  <1>6. final' = [final EXCEPT ![id] = [file EXCEPT !.size = size]]
    BY <1>2, <1>4
  <1>7. final' \in [Ids -> Contents] /\ (\A i \in Ids : i # id => final'[i] = final[i])
    BY <1>5, <1>6
  <1>8. id \in used
    BY <1>2, <1>3 DEF StorageInv, IdOK
  <1>9. StorageTypeOK'
    <2>1. {staged', encrypted', final'} \subseteq [Ids -> Contents] /\ cut' \subseteq used
      BY <1>1, <1>7, <1>8 DEF StorageInv, StorageTypeOK
    <2> QED
      BY <1>1, <2>1 DEF StorageInv, StorageTypeOK
  <1>10. OwnIds'
    BY <1>1 DEF StorageInv, OwnIds, Working
  <1>11. ASSUME NEW w \in Workers PROVE AtWork(w)'
    <2> SUFFICES ASSUME Working(w) PROVE AtWork(w)'
      BY <1>1 DEF AtWork, Working
    <2>1. AtWork(w) /\ op[w].id \in Ids
      BY OpMoves DEF Busy, StorageInv
    <2>2. CASE op[w].id # id
      BY <1>1, <1>7, <2>1, <2>2 DEF AtWork, Working, StagedRight, EncryptedRight, Streams, StagedForm, Describe
    <2>3. CASE op[w].id = id
      BY <1>1, <1>2, <1>3, <2>1, <2>3 DEF AtWork, Working
    <2> QED
      BY <2>2, <2>3
  <1>12. ASSUME NEW i \in Ids PROVE IdOK(i)'
    <2>1. IdOK(i) /\ (HeldBy(i)' <=> HeldBy(i))
      BY <1>1 DEF StorageInv, HeldBy, Working
    <2> QED
      BY <1>1, <1>7, <1>8, <2>1 DEF IdOK
  <1> QED
    BY <1>1, <1>9, <1>10, <1>11, <1>12 DEF StorageInv

LEMMA StorageNextInv == ASSUME StorageInv, [StorageNext]_storageVars PROVE StorageInv'
  <1>1. CASE \E w \in Workers : Step(w)
    BY <1>1, BlockInv, EndWriteInv, EncryptInv, PublishInv, FailWriteInv, UnlinkInv, UnlinkFailsInv,
      RecordInv, RemoveInv DEF Step
  <1>2. CASE \E w \in Workers : Crash(w) \/ \E id \in Ids, kind \in Kinds : Begin(w, id, kind)
    BY <1>2, CrashInv, BeginInv
  <1>3. CASE \E id \in Ids : DeleteDataset(id) \/ LoseTail(id)
    BY <1>3, DeleteDatasetInv, LoseTailInv
  <1>4. CASE UNCHANGED storageVars
    BY <1>4 DEF storageVars, files, bounds, StorageInv, StorageTypeOK, OwnIds, AtWork, IdOK, HeldBy, Working,
      StagedRight, EncryptedRight, Streams, StagedForm, Describe
  <1> QED
    BY <1>1, <1>2, <1>3, <1>4 DEF StorageNext

\* For any number of processes, identifiers, keys and blocks, whatever raises,
\* dies or loses its tail: what a descriptor names is read back with its key,
\* no write leaves a staging file, and rows and files agree.
THEOREM FilesAgreeWithDescriptors == StorageSpec => []StorageInvariant
  <1>1. StorageInv => StorageInvariant
    <2> SUFFICES ASSUME StorageInv PROVE StorageInvariant
      OBVIOUS
    <2>1. \A id \in Ids : id \in Held <=> HeldBy(id)
      BY DEF Held, HeldBy, Working
    <2>2. DescribedIsReadable
      <3>1. ASSUME NEW id \in Ids, NEW d \in described[id] PROVE d.encrypted \in BOOLEAN
        BY <3>1, StorageTyped DEF Descriptors
      <3> QED
        BY <3>1, WholeIsReadable DEF DescribedIsReadable, StorageInv, IdOK
    <2>3. NothingLeftStaged /\ ArtifactsMatchRows
      BY <2>1 DEF NothingLeftStaged, ArtifactsMatchRows, StorageInv, StorageTypeOK, IdOK
    <2> QED
      BY <2>2, <2>3 DEF StorageInvariant, StorageInv
  <1> QED
    BY <1>1, StorageInitInv, StorageNextInv, PTL DEF StorageSpec
=============================================================================
